---------------------------- MODULE Spec2Model ----------------------------
(***************************************************************************)
(* ICC mailbox transport of the Aeolia southbridge driver (icc.c):         *)
(* apcie_icc_cmd / _apcie_icc_cmd (the blocking sender), icc_interrupt /   *)
(* handle_message (the interrupt reactor), and the remote co-processor as  *)
(* the environment that drains the request slot and fills the reply slot.  *)
(***************************************************************************)
EXTENDS Integers, Naturals, Sequences, FiniteSets, TLC

(***************************************************************************)
(* Bounds of the exploration.                                              *)
(***************************************************************************)
\* total number of apcie_icc_cmd calls made in one behaviour
MaxCalls == 2
\* total number of frames the remote places in the reply slot
MaxFrames == 2
\* arbitrary sequences of emitter calls are at most MaxEmit long
MaxEmit == 3
\* a batch made of one emitter call over and over is at most MaxRun long
MaxRun == 257
\* total number of cq_exec calls made in one behaviour
MaxExec == 2

(***************************************************************************)
(* Program constants.                                                      *)
(***************************************************************************)
\* u8 / u16 arithmetic
U8Mod  == 256
U16Mod == 65536

\* wire format (aeolia-baikal.h: struct icc_message_hdr is 12 bytes packed)
ICC_HDR_SIZE    == 12
ICC_MIN_SIZE    == 32
ICC_MAX_SIZE    == 2032
ICC_MIN_PAYLOAD == ICC_MIN_SIZE - ICC_HDR_SIZE
ICC_MAX_PAYLOAD == ICC_MAX_SIZE - ICC_HDR_SIZE
ICC_MAGIC       == 66
ICC_EVENT_MAGIC == 36
ICC_REPLY       == 16384
ICC_EVENT       == 32768

\* bits of the DOORBELL and STATUS registers (aeolia.h)
APCIE_ICC_SEND == 1
APCIE_ICC_ACK  == 2

\* errno values returned (negated) by the transport
ENOENT    == 2
EINTR     == 4
EIO       == 5
E2BIG     == 7
EAGAIN    == 11
EFAULT    == 14
EBUSY     == 16
ENODEV    == 19
ETIMEDOUT == 110
\* -ERESTARTSYS, the value of an interrupted wait
ERESTARTSYS == 512

Threads  == {"t1", "t2"}
NoThread == "none"
NULL     == "NULL"

Min(a, b) == IF a < b THEN a ELSE b
Max(a, b) == IF a > b THEN a ELSE b

(***************************************************************************)
(* Pure helpers.                                                           *)
(***************************************************************************)
\* sum of p[lo..hi], by halves (the order of a sum does not matter)
RECURSIVE SumRange(_, _, _)
SumRange(p, lo, hi) ==
    IF lo > hi THEN 0
    ELSE IF lo = hi THEN p[lo]
    ELSE LET mid == (lo + hi) \div 2
         IN  SumRange(p, lo, mid) + SumRange(p, mid + 1, hi)

\* static u16 checksum(const void *p, int length): u16 sum of the bytes
checksum(p) == SumRange(p, 1, Len(p)) % U16Mod

\* struct icc_message_hdr, all fields zero
ZeroHdr ==
    [magic |-> 0, major |-> 0, minor |-> 0, unknown |-> 0,
     cookie |-> 0, length |-> 0, checksum |-> 0]

\* the 12 bytes of a packed little-endian struct icc_message_hdr
HdrBytes(h) ==
    << h.magic, h.major,
       h.minor % U8Mod, h.minor \div U8Mod,
       h.unknown % U8Mod, h.unknown \div U8Mod,
       h.cookie % U8Mod, h.cookie \div U8Mod,
       h.length % U8Mod, h.length \div U8Mod,
       h.checksum % U8Mod, h.checksum \div U8Mod >>

\* bitwise tests / or of the two flag bits of minor (bits 14 and 15)
HasBit(v, bit) == (v \div bit) % 2 = 1
OrBit(v, bit)  == IF HasBit(v, bit) THEN v ELSE v + bit

\* n zero bytes
Zeros(n) == [i \in 1..n |-> 0]

\* first n elements of s (all of s when it is shorter)
Take(s, n) == SubSeq(s, 1, Min(n, Len(s)))
\* s without its first n elements
Drop(s, n) == SubSeq(s, Min(n, Len(s)) + 1, Len(s))


(***************************************************************************)
(* Inputs of the callers and of the remote side.                           *)
(***************************************************************************)
\* payloads handed to apcie_icc_cmd; the last one is one byte too long
ReqData == { <<1>>, Zeros(ICC_MAX_PAYLOAD + 1) }
\* reply_length values handed to apcie_icc_cmd
Caps == {0, 2}
\* payloads the remote puts into its frames
ReplyPayloads == { <<7>>, <<0, 0, 0, 8>> }
\* the (addr, data) pair handed to the k-th emitter call when it is a
\* cq_writereg: another register and another value every time
WriteRegOperands(k) == << 31368 + k, k % U8Mod >>
\* the caller's reply buffer before the call: n bytes of 0xAA
Poison(n) == [i \in 1..n |-> 170]

(***************************************************************************)
(* State.                                                                  *)
(***************************************************************************)
VARIABLES
    bpcie_initialized,  \* extern bool bpcie_initialized
    icc_sc,             \* static struct apcie_dev *icc_sc (TRUE: registered)
    icc_mutex,          \* DEFINE_MUTEX(icc_mutex): owner or NoThread
    icc,                \* sc->icc: request, reply, reply_pending, ...
    spm,                \* shared window: request slot and reply slot
    regs,               \* ICC STATUS, DOORBELL and IRQ_MASK registers
    pc,                 \* position of every caller
    args,               \* arguments of every caller's current call
    ret,                \* int ret of the call (its return value when idle)
    err,                \* which error message the call logged
    wret,               \* value returned by the wait
    buf,                \* every caller's reply buffer
    serial,             \* history: ordinal of the caller's request
    irq,                \* icc_interrupt: position, local status, ret, log
    ncalls,             \* number of calls made so far
    nlocked,            \* number of requests that took the mutex so far
    nframes,            \* number of frames sent by the remote so far
    seen,               \* requests the remote has read from the request slot
    accepted,           \* history: frame accepted for the current request
    drops,              \* history: frames dropped while it was pending
    prev,               \* history: outcome of the previous request
    cq,                 \* g_bridge.cq: struct i2c_cmdqueue
    emitted,            \* history: the emitter calls made since cq_init
    opened,             \* history: where cq_cmd opened a group header
    exec,               \* the last cq_exec: what apcie_icc_cmd gave, result
    detect,             \* what ps4_bridge_detect returned, until the queue
                        \* is initialised again
    probe,              \* apcie_icc_init: position, ret, resources held
    ioc,                \* icc_ioctl: position, struct icc_cmd, ret, copies
    br,                 \* g_bridge.mutex and the callers of the bridge
    ctl                 \* ioctl_tmp_buf and the concurrent callers of icc_ioctl

\* the mailbox transport and its environment
iccVars == << bpcie_initialized, icc_sc, icc_mutex, icc, spm, regs, pc, args,
              ret, err, wret, buf, serial, irq, ncalls, nlocked, nframes,
              seen, accepted, drops, prev >>

\* the users of the transport
extVars == << cq, emitted, opened, exec, detect, probe, ioc, br, ctl >>

vars == << iccVars, extVars >>

callerVars == << pc, args, ret, err, wret, serial >>
ghostVars  == << accepted, drops, prev >>

\* apcie_icc_init has returned 0: took and gave (histories) are the
\* resources acquired and released, in order
ProbeDone ==
    [pc |-> "done", ret |-> 0,
     took |-> << "mem_dev", "icc_region", "spm_region", "spm_map", "irq" >>,
     gave |-> <<>>]

\* icc_ioctl not running; length and reply_length are the fields of its
\* struct icc_cmd, copies (history) the sizes of the copies into and out of
\* ioctl_tmp_buf made by the call
IoctlIdle ==
    [pc |-> "idle", length |-> 0, reply_length |-> 0, ret |-> 0,
     copies |-> <<>>]

\* g_bridge.mutex free and nobody in a bridge operation: for every caller
\* its position, the operation it is in, the batches it still has to run,
\* the value of its last cq_exec and the register byte it read; n counts
\* the calls made so far
\* static void *ioctl_tmp_buf and the threads inside icc_ioctl: tmp, the
\* first bytes of the buffer (kzalloc: zero); per thread its position, the
\* bytes its user supplied, cmd.reply_length and ret; histories: sent, the
\* request bytes apcie_icc_cmd transmitted for it, reply, the reply bytes the
\* reactor copied for it, out, the bytes handed back to its user, alone,
\* whether no other thread was inside icc_ioctl during its call; n, the
\* calls made so far
CtlIdle ==
    [tmp |-> << 0, 0 >>,
     pc |-> [t \in Threads |-> "idle"],
     user |-> [t \in Threads |-> <<>>],
     reply_length |-> [t \in Threads |-> 0],
     ret |-> [t \in Threads |-> 0],
     sent |-> [t \in Threads |-> <<>>],
     reply |-> [t \in Threads |-> <<>>],
     out |-> [t \in Threads |-> <<>>],
     alone |-> [t \in Threads |-> TRUE],
     n |-> 0]

BridgeIdle ==
    [mutex |-> NoThread,
     pc    |-> [t \in Threads |-> "idle"],
     op    |-> [t \in Threads |-> "none"],
     left  |-> [t \in Threads |-> 0],
     res   |-> [t \in Threads |-> 0],
     reg   |-> [t \in Threads |-> 0],
     n     |-> 0]

\* a null pointer into req.cmdbuf
NullOffset == 0 - 1

\* static struct ps4_bridge g_bridge: the queue before the first cq_init;
\* cmdbuf holds the bytes written since cq_init, the first p bytes of
\* req.cmdbuf (p and cmd are offsets into req.cmdbuf); reply holds the bytes
\* of the reply struct written so far, the bytes after them being zero
ZeroQueue ==
    [code |-> 0, length |-> 0, count |-> 0, cmdbuf |-> <<>>,
     p |-> NullOffset, cmd |-> NullOffset, reply |-> <<>>]

\* no cq_exec since the last cq_init (n: the cq_exec calls made so far;
\* o, history: what the transport call came to)
NoExec ==
    [done |-> FALSE, res |-> 0, ret |-> 0, log |-> "none", n |-> 0,
     o |-> [err |-> 0, data |-> <<>>]]

NoArgs == [major |-> 0, minor |-> 0, data |-> <<>>, reply_length |-> 0,
           intr |-> FALSE]

\* a slot of the window: BUF_EMPTY and BUF_FULL words, header, payload;
\* g_hdr/g_data (history): which request wrote the header / the payload
IdleSlot == [empty |-> 1, full |-> 0, hdr |-> ZeroHdr, data |-> <<>>,
             g_hdr |-> 0, g_data |-> 0]

\* the reply slot; g_for (history): the request the remote answers, or 0
IdleReplySlot == [empty |-> 1, full |-> 0, hdr |-> ZeroHdr, data |-> <<>>,
                  g_for |-> 0]

\* (faulty variant: the handler claims every interrupt)
IrqInitialRet_Handled == "IRQ_HANDLED"

\* u32 ret = IRQ_NONE
IrqInitialRet == "IRQ_NONE"

\* icc_interrupt not running; obs (history): whether the running invocation
\* has read the ACK or the SEND bit from STATUS
IrqIdle == [pc |-> "idle", status |-> {}, ret |-> IrqInitialRet,
            log |-> "none", obs |-> FALSE]

\* the state left by a successful apcie_icc_init: window mapped, status
\* flags cleared, request slot idle, icc_sc set, interrupts enabled
\* (the cookie only ever counts up on a u16: the model starts two requests
\* short of its wrap, so that the wrap is among the requests it makes)
Init ==
    /\ bpcie_initialized \in BOOLEAN
    /\ icc_sc = TRUE
    /\ icc_mutex = NoThread
    /\ icc = [request |-> [ZeroHdr EXCEPT !.cookie = U16Mod - 2],
              reply |-> ZeroHdr,
              reply_pending |-> FALSE,
              reply_buffer |-> NULL,
              reply_length |-> 0,
              reply_extra_checksum |-> 0]
    /\ spm = [req |-> IdleSlot, rep |-> IdleReplySlot]
    /\ regs = [status |-> {}, doorbell |-> {},
               irq_mask |-> {APCIE_ICC_SEND, APCIE_ICC_ACK}]
    /\ pc = [t \in Threads |-> "idle"]
    /\ args = [t \in Threads |-> NoArgs]
    /\ ret = [t \in Threads |-> 0]
    /\ err = [t \in Threads |-> "none"]
    /\ wret = [t \in Threads |-> 0]
    /\ buf = [t \in Threads |-> <<>>]
    /\ serial = [t \in Threads |-> 0]
    /\ irq = IrqIdle
    /\ ncalls = 0
    /\ nlocked = 0
    /\ nframes = 0
    /\ seen = {}
    /\ accepted = <<>>
    /\ drops = {}
    /\ prev = "none"
    /\ cq = ZeroQueue
    /\ emitted = <<>>
    /\ opened = <<>>
    /\ exec = NoExec
    /\ detect = "none"
    /\ probe = ProbeDone
    /\ ioc = IoctlIdle
    /\ br = BridgeIdle
    /\ ctl = CtlIdle

(***************************************************************************)
(* apcie_icc_cmd / _apcie_icc_cmd: the blocking sender.                    *)
(***************************************************************************)
\* (faulty variant: a mutex_lock that does not wait for the owner)
MutexAvailable_NoWait == TRUE

\* mutex_lock(&icc_mutex) can return only when nobody owns the mutex
MutexAvailable == icc_mutex = NoThread

\* (faulty variant: the payload measured against the frame limit)
PayloadTooLarge_Frame(length) == length > ICC_MAX_SIZE

\* if (length > ICC_MAX_PAYLOAD)
PayloadTooLarge(length) == length > ICC_MAX_PAYLOAD

\* (faulty variant: the cookie is advanced twice)
NextCookie_Twice(c) == (c + 2) % U16Mod

\* (faulty variant: the cookie is not advanced)
NextCookie_Same(c) == c

\* sc->icc.request.cookie++ on a u16
NextCookie(c) == (c + 1) % U16Mod

\* (faulty variant: the length is not raised to the minimum)
RequestLength_NoMin(length) == ICC_HDR_SIZE + length

\* request.length = ICC_HDR_SIZE + length, raised to ICC_MIN_SIZE
RequestLength(length) == Max(ICC_HDR_SIZE + length, ICC_MIN_SIZE)

\* request.checksum = checksum(&request, ICC_HDR_SIZE) with the field zeroed,
\* then += checksum(data, length), both on a u16
RequestChecksum(hdr, data) ==
    (checksum(HdrBytes([hdr EXCEPT !.checksum = 0])) + checksum(data)) % U16Mod

\* (faulty variant: the slot is not tested)
SlotIdle_Always(req_empty, req_full) == TRUE

\* if (req_empty != 1 || req_full != 0) is the busy test; this is its negation
SlotIdle(req_empty, req_full) == req_empty = 1 /\ req_full = 0

\* memcpy_toio(data, length) followed by memset_io(0, ICC_MIN_PAYLOAD - length)
PaddedData(data) ==
    IF Len(data) < ICC_MIN_PAYLOAD
    THEN data \o Zeros(ICC_MIN_PAYLOAD - Len(data))
    ELSE data

\* if (ret < 0 || sc->icc.reply_pending): interrupted or timed out
WaitFailed(r, pending) == r < 0 \/ pending

\* (faulty variant: reply_pending is left set)
AbandonReply_KeepPending(i) == [i EXCEPT !.reply_buffer = NULL]

\* lines 233-235: reply_buffer = NULL; reply_pending = false
AbandonReply(i) == [i EXCEPT !.reply_buffer = NULL, !.reply_pending = FALSE]

\* (faulty variant: every failed wait reported as a timeout)
WaitErrno_Timeout(r) == 0 - ETIMEDOUT

\* return ret < 0 ? -EINTR : -ETIMEDOUT
WaitErrno(r) == IF r < 0 THEN 0 - EINTR ELSE 0 - ETIMEDOUT

\* (faulty variant: the bytes that were not copied out are left unchecked)
ReplyChecksumDiff_NoExtra(hdr, copied, extra) ==
    (hdr.checksum
       - checksum(HdrBytes([hdr EXCEPT !.checksum = 0]))
       - checksum(copied)) % U16Mod

\* rep_checksum = reply.checksum - checksum(hdr with checksum 0)
\*                - checksum(reply, reply_length) - reply_extra_checksum (u16)
ReplyChecksumDiff(hdr, copied, extra) ==
    (hdr.checksum
       - checksum(HdrBytes([hdr EXCEPT !.checksum = 0]))
       - checksum(copied)
       - extra) % U16Mod

\* if (sc->icc.reply.major != major) is the major test; its negation
MajorMatches(reply, major) == reply.major = major

\* (faulty variant: the minor is not compared)
MinorMatches_Any(reply, minor) == TRUE

\* if (sc->icc.reply.minor != (minor | ICC_REPLY)) is the minor test; its
\* negation
MinorMatches(reply, minor) == reply.minor = OrBit(minor, ICC_REPLY)

\* (faulty variant: the frame length returned as the payload length)
ReplyPayloadLength_Frame(hdr) == hdr.length

\* return sc->icc.reply.length - ICC_HDR_SIZE
ReplyPayloadLength(hdr) == hdr.length - ICC_HDR_SIZE

\* the argument lists of apcie_icc_cmd(major, minor, data, length, reply,
\* reply_length), which passes intr = false to _apcie_icc_cmd
CallArgs ==
    { [major |-> 2, minor |-> 6, data |-> d, reply_length |-> c,
       intr |-> FALSE] : d \in ReqData, c \in Caps }

\* one argument list of apcie_icc_cmd
OneArgs ==
    { [major |-> 2, minor |-> 6, data |-> <<1>>, reply_length |-> 2,
       intr |-> FALSE] }

\* n bytes of value b
Bytes(n, b) == [i \in 1..n |-> b]

\* payloads of every kind of length: none, one byte, one less than, exactly
\* and one more than ICC_MIN_PAYLOAD, one whose byte sum passes 2^16, and the
\* longest one
LenData ==
    { <<>>, <<1>>, Bytes(ICC_MIN_PAYLOAD - 1, 255), Bytes(ICC_MIN_PAYLOAD, 3),
      Bytes(ICC_MIN_PAYLOAD + 1, 3), Bytes(300, 255),
      Bytes(ICC_MAX_PAYLOAD, 255) }

LenArgs ==
    { [major |-> 2, minor |-> 6, data |-> d, reply_length |-> 0,
       intr |-> FALSE] : d \in LenData }

\* the argument list of a direct _apcie_icc_cmd(..., intr = true)
CmdArgs ==
    { [major |-> 2, minor |-> 6, data |-> <<1>>, reply_length |-> 2,
       intr |-> TRUE] }

\* entry of apcie_icc_cmd on the Aeolia path (bpcie_initialized false)
Call(t) ==
    /\ pc[t] = "idle"
    /\ ncalls < MaxCalls
    /\ ~bpcie_initialized
    /\ pc' = [pc EXCEPT ![t] = "lock"]
    /\ ncalls' = ncalls + 1
    /\ UNCHANGED << bpcie_initialized, icc_sc, icc_mutex, icc, spm, regs,
                    args, ret, err, wret, buf, serial, irq, nlocked, nframes,
                    seen, ghostVars >>
    /\ UNCHANGED extVars

\* if (bpcie_initialized) return bpcie_icc_cmd(...): the Baikal transport
\* takes the call and nothing of this transport is touched
CallBpcie(t) ==
    /\ pc[t] = "idle"
    /\ ncalls < MaxCalls
    /\ bpcie_initialized
    /\ ncalls' = ncalls + 1
    /\ UNCHANGED << bpcie_initialized, icc_sc, icc_mutex, icc, spm, regs, pc,
                    args, ret, err, wret, buf, serial, irq, nlocked, nframes,
                    seen, ghostVars >>
    /\ UNCHANGED extVars

\* mutex_lock(&icc_mutex); if (!icc_sc) return -EAGAIN (mutex still held);
\* else enter _apcie_icc_cmd.  The caller's arguments and the initial
\* content of its reply buffer are fixed here, where they are first read.
LockWith(t, as) ==
    /\ pc[t] = "lock"
    /\ MutexAvailable
    /\ icc_mutex' = t
    /\ IF icc_sc
       THEN /\ pc' = [pc EXCEPT ![t] = "build"]
            /\ serial' = [serial EXCEPT ![t] = nlocked + 1]
            /\ nlocked' = nlocked + 1
            /\ \E a \in as :
                  /\ args' = [args EXCEPT ![t] = a]
                  /\ buf' = [buf EXCEPT ![t] = Poison(a.reply_length)]
            /\ UNCHANGED << ret, err >>
       ELSE /\ pc' = [pc EXCEPT ![t] = "idle"]
            /\ ret' = [ret EXCEPT ![t] = 0 - EAGAIN]
            /\ err' = [err EXCEPT ![t] = "notready"]
            /\ UNCHANGED << args, buf, serial, nlocked >>
    /\ UNCHANGED << bpcie_initialized, icc_sc, icc, spm, regs, wret, irq,
                    ncalls, nframes, seen, ghostVars >>
    /\ UNCHANGED extVars

Lock(t) == LockWith(t, CallArgs)

\* lines 183-198: size check, request header, cookie, checksum, reply target
Build(t) ==
    /\ pc[t] = "build"
    /\ IF PayloadTooLarge(Len(args[t].data))
       THEN /\ ret' = [ret EXCEPT ![t] = 0 - E2BIG]
            /\ err' = [err EXCEPT ![t] = "e2big"]
            /\ pc' = [pc EXCEPT ![t] = "unlock"]
            /\ UNCHANGED << icc, accepted, drops >>
       ELSE /\ LET h0 == [icc.request EXCEPT
                             !.magic = ICC_MAGIC,
                             !.major = args[t].major,
                             !.minor = args[t].minor,
                             !.cookie = NextCookie(icc.request.cookie),
                             !.length = RequestLength(Len(args[t].data)),
                             !.checksum = 0]
                   h1 == [h0 EXCEPT
                             !.checksum = RequestChecksum(h0, args[t].data)]
               IN icc' = [icc EXCEPT !.request = h1,
                                     !.reply_buffer = t,
                                     !.reply_length = args[t].reply_length]
            /\ pc' = [pc EXCEPT ![t] = "check"]
            /\ accepted' = <<>>
            /\ drops' = {}
            /\ UNCHANGED << ret, err >>
    /\ UNCHANGED << bpcie_initialized, icc_sc, icc_mutex, spm, regs, args,
                    wret, buf, serial, irq, ncalls, nlocked, nframes, seen,
                    prev >>
    /\ UNCHANGED extVars

\* lines 200-207: the request slot must be idle, else -EIO
CheckSlot(t) ==
    /\ pc[t] = "check"
    /\ IF SlotIdle(spm.req.empty, spm.req.full)
       THEN /\ pc' = [pc EXCEPT ![t] = "w_empty"]
            /\ UNCHANGED << ret, err >>
       ELSE /\ ret' = [ret EXCEPT ![t] = 0 - EIO]
            /\ err' = [err EXCEPT ![t] = "busy"]
            /\ pc' = [pc EXCEPT ![t] = "unlock"]
    /\ UNCHANGED << bpcie_initialized, icc_sc, icc_mutex, icc, spm, regs,
                    args, wret, buf, serial, irq, ncalls, nlocked, nframes,
                    seen, ghostVars >>
    /\ UNCHANGED extVars

\* line 209: iowrite32(0, REQUEST + BUF_EMPTY)
WriteEmpty(t) ==
    /\ pc[t] = "w_empty"
    /\ spm' = [spm EXCEPT !.req.empty = 0]
    /\ pc' = [pc EXCEPT ![t] = "w_hdr"]
    /\ UNCHANGED << bpcie_initialized, icc_sc, icc_mutex, icc, regs, args,
                    ret, err, wret, buf, serial, irq, ncalls, nlocked,
                    nframes, seen, ghostVars >>
    /\ UNCHANGED extVars

\* line 211: memcpy_toio(REQUEST, &sc->icc.request, ICC_HDR_SIZE)
WriteHdr(t) ==
    /\ pc[t] = "w_hdr"
    /\ spm' = [spm EXCEPT !.req.hdr = icc.request, !.req.g_hdr = serial[t]]
    /\ pc' = [pc EXCEPT ![t] = "w_data"]
    /\ UNCHANGED << bpcie_initialized, icc_sc, icc_mutex, icc, regs, args,
                    ret, err, wret, buf, serial, irq, ncalls, nlocked,
                    nframes, seen, ghostVars >>
    /\ UNCHANGED extVars

\* lines 212-215: payload, zero-padded to ICC_MIN_PAYLOAD
WriteData(t) ==
    /\ pc[t] = "w_data"
    /\ spm' = [spm EXCEPT !.req.data = PaddedData(args[t].data),
                          !.req.g_data = serial[t]]
    /\ pc' = [pc EXCEPT ![t] = "w_full"]
    /\ UNCHANGED << bpcie_initialized, icc_sc, icc_mutex, icc, regs, args,
                    ret, err, wret, buf, serial, irq, ncalls, nlocked,
                    nframes, seen, ghostVars >>
    /\ UNCHANGED extVars

\* line 217: iowrite32(1, REQUEST + BUF_FULL)
WriteFull(t) ==
    /\ pc[t] = "w_full"
    /\ spm' = [spm EXCEPT !.req.full = 1]
    /\ pc' = [pc EXCEPT ![t] = "pend"]
    /\ UNCHANGED << bpcie_initialized, icc_sc, icc_mutex, icc, regs, args,
                    ret, err, wret, buf, serial, irq, ncalls, nlocked,
                    nframes, seen, ghostVars >>
    /\ UNCHANGED extVars

\* (faulty variant: the flag is not set before the doorbell is rung)
SetPending_Skip(t) ==
    /\ pc[t] = "pend"
    /\ pc' = [pc EXCEPT ![t] = "bell"]
    /\ UNCHANGED << bpcie_initialized, icc_sc, icc_mutex, icc, spm, regs,
                    args, ret, err, wret, buf, serial, irq, ncalls, nlocked,
                    nframes, seen, ghostVars >>
    /\ UNCHANGED extVars

\* lines 219-221: reply_pending = true under reply_lock
SetPending(t) ==
    /\ pc[t] = "pend"
    /\ icc' = [icc EXCEPT !.reply_pending = TRUE]
    /\ pc' = [pc EXCEPT ![t] = "bell"]
    /\ UNCHANGED << bpcie_initialized, icc_sc, icc_mutex, spm, regs, args,
                    ret, err, wret, buf, serial, irq, ncalls, nlocked,
                    nframes, seen, ghostVars >>
    /\ UNCHANGED extVars

\* line 223: iowrite32(APCIE_ICC_SEND, DOORBELL)
RingDoorbell(t) ==
    /\ pc[t] = "bell"
    /\ regs' = [regs EXCEPT !.doorbell = @ \cup {APCIE_ICC_SEND}]
    /\ pc' = [pc EXCEPT ![t] = "wait"]
    /\ UNCHANGED << bpcie_initialized, icc_sc, icc_mutex, icc, spm, args,
                    ret, err, wret, buf, serial, irq, ncalls, nlocked,
                    nframes, seen, ghostVars >>
    /\ UNCHANGED extVars

\* lines 225-230: the wait ends because reply_pending was seen cleared;
\* the value is the remaining time, at least 1
WaitDone(t) ==
    /\ pc[t] = "wait"
    /\ ~icc.reply_pending
    /\ wret' = [wret EXCEPT ![t] = 1]
    /\ pc' = [pc EXCEPT ![t] = "after"]
    /\ UNCHANGED << bpcie_initialized, icc_sc, icc_mutex, icc, spm, regs,
                    args, ret, err, buf, serial, irq, ncalls, nlocked,
                    nframes, seen, ghostVars >>
    /\ UNCHANGED extVars

\* lines 225-230: HZ * ICC_TIMEOUT elapsed with reply_pending still set
WaitTimeout(t) ==
    /\ pc[t] = "wait"
    /\ icc.reply_pending
    /\ wret' = [wret EXCEPT ![t] = 0]
    /\ pc' = [pc EXCEPT ![t] = "after"]
    /\ UNCHANGED << bpcie_initialized, icc_sc, icc_mutex, icc, spm, regs,
                    args, ret, err, buf, serial, irq, ncalls, nlocked,
                    nframes, seen, ghostVars >>
    /\ UNCHANGED extVars

\* lines 226-227: wait_event_interruptible_timeout broken by a signal
WaitInterrupted(t) ==
    /\ pc[t] = "wait"
    /\ args[t].intr
    /\ icc.reply_pending
    /\ wret' = [wret EXCEPT ![t] = 0 - ERESTARTSYS]
    /\ pc' = [pc EXCEPT ![t] = "after"]
    /\ UNCHANGED << bpcie_initialized, icc_sc, icc_mutex, icc, spm, regs,
                    args, ret, err, buf, serial, irq, ncalls, nlocked,
                    nframes, seen, ghostVars >>
    /\ UNCHANGED extVars

\* lines 232-240, under reply_lock: forget the reply buffer; on interruption
\* or timeout clear reply_pending and fail
AfterWait(t) ==
    /\ pc[t] = "after"
    /\ IF WaitFailed(wret[t], icc.reply_pending)
       THEN /\ icc' = AbandonReply(icc)
            /\ ret' = [ret EXCEPT ![t] = WaitErrno(wret[t])]
            /\ err' = [err EXCEPT ![t] =
                          IF wret[t] < 0 THEN "intr" ELSE "timeout"]
            /\ pc' = [pc EXCEPT ![t] = "unlock"]
       ELSE /\ icc' = [icc EXCEPT !.reply_buffer = NULL]
            /\ pc' = [pc EXCEPT ![t] = "verify"]
            /\ UNCHANGED << ret, err >>
    /\ UNCHANGED << bpcie_initialized, icc_sc, icc_mutex, spm, regs, args,
                    wret, buf, serial, irq, ncalls, nlocked, nframes, seen,
                    ghostVars >>
    /\ UNCHANGED extVars

\* lines 242-262: checksum, major and minor of the saved reply
Verify(t) ==
    /\ pc[t] = "verify"
    /\ LET rep_checksum ==
               ReplyChecksumDiff(icc.reply, Take(buf[t], icc.reply_length),
                                 icc.reply_extra_checksum)
       IN  /\ icc' = [icc EXCEPT !.reply.checksum = 0]
           /\ IF rep_checksum # 0
              THEN /\ ret' = [ret EXCEPT ![t] = 0 - EIO]
                   /\ err' = [err EXCEPT ![t] = "checksum"]
              ELSE IF ~MajorMatches(icc.reply, args[t].major)
              THEN /\ ret' = [ret EXCEPT ![t] = 0 - EIO]
                   /\ err' = [err EXCEPT ![t] = "major"]
              ELSE IF ~MinorMatches(icc.reply, args[t].minor)
              THEN /\ ret' = [ret EXCEPT ![t] = 0 - EIO]
                   /\ err' = [err EXCEPT ![t] = "minor"]
              ELSE /\ ret' = [ret EXCEPT ![t] = ReplyPayloadLength(icc.reply)]
                   /\ err' = [err EXCEPT ![t] = "none"]
    /\ pc' = [pc EXCEPT ![t] = "unlock"]
    /\ UNCHANGED << bpcie_initialized, icc_sc, icc_mutex, spm, regs, args,
                    wret, buf, serial, irq, ncalls, nlocked, nframes, seen,
                    ghostVars >>
    /\ UNCHANGED extVars

\* lines 282-283: mutex_unlock(&icc_mutex); return ret
\* (the locals of the call die with it, the caller takes the reply out of
\* its buffer, and the histories of the request end)
Unlock(t) ==
    /\ pc[t] = "unlock"
    /\ icc_mutex' = NoThread
    /\ pc' = [pc EXCEPT ![t] = "idle"]
    /\ args' = [args EXCEPT ![t] = NoArgs]
    /\ ret' = [ret EXCEPT ![t] = 0]
    /\ err' = [err EXCEPT ![t] = "none"]
    /\ wret' = [wret EXCEPT ![t] = 0]
    /\ serial' = [serial EXCEPT ![t] = 0]
    /\ buf' = [buf EXCEPT ![t] = <<>>]
    /\ prev' = err[t]
    /\ accepted' = <<>>
    /\ drops' = {}
    /\ UNCHANGED << bpcie_initialized, icc_sc, icc, spm, regs, irq,
                    ncalls, nlocked, nframes, seen >>
    /\ UNCHANGED extVars

(***************************************************************************)
(* icc_interrupt / handle_message / handle_event: the interrupt reactor.   *)
(***************************************************************************)
\* if (rep_empty != 0 || rep_full != 1) is the bad-state test; its negation
ReplySlotReady(rep_empty, rep_full) == rep_empty = 0 /\ rep_full = 1

\* (faulty variant: a reply is taken whether or not one is awaited)
ReplyExpected_Always == TRUE

\* if (!sc->icc.reply_pending) is the unexpected-reply test; its negation
ReplyExpected == icc.reply_pending

\* (faulty variant: the cookie is not compared)
CookieMatches_Any(msg) == TRUE

\* if (msg.cookie != sc->icc.request.cookie) is the bad-cookie test; its
\* negation
CookieMatches(msg) == msg.cookie = icc.request.cookie

\* (faulty variant: no upper limit on the length)
LengthInBounds_NoUpper(msg) == ~(msg.length < ICC_HDR_SIZE)

\* if (msg.length < ICC_HDR_SIZE || msg.length > ICC_MAX_SIZE) is the
\* bad-length test; its negation
LengthInBounds(msg) ==
    ~(msg.length < ICC_HDR_SIZE \/ msg.length > ICC_MAX_SIZE)

\* (faulty variant: the capacity of the caller's buffer is not looked at)
CopySize_Frame(reply_length, msg) == msg.length - ICC_HDR_SIZE

\* copy_size = min(sc->icc.reply_length, (int)(msg.length - off))
CopySize(reply_length, msg) == Min(reply_length, msg.length - ICC_HDR_SIZE)

\* the n bytes that follow the header in the reply slot
WindowPayload(slot, n) ==
    IF n <= Len(slot.data) THEN SubSeq(slot.data, 1, n)
    ELSE slot.data \o Zeros(n - Len(slot.data))

\* memcpy_fromio(sc->icc.reply_buffer, REPLY + off, copy_size)
CopyInto(old, bytes) == bytes \o Drop(old, Len(bytes))

\* reply_extra_checksum = 0; while (off < msg.length) += ioread8(REPLY + off++)
ExtraChecksum(payload, copy_size) == checksum(Drop(payload, copy_size))

\* switch ((msg->major << 16) | msg->minor)
handle_event(msg) ==
    LET key == msg.major * 65536 + msg.minor
    IN  IF key = 8 * 65536 + 32784 THEN "pwrbutton_1"
        ELSE IF key = 8 * 65536 + 32785 THEN "pwrbutton_0"
        ELSE "event_unsupported"

\* (faulty variant: the REPLY flag is looked at first)
IsEvent_ReplyFirst(msg) ==
    HasBit(msg.minor, ICC_EVENT) /\ ~HasBit(msg.minor, ICC_REPLY)

\* if (msg.minor & ICC_EVENT), the first test made of the header
IsEvent(msg) == HasBit(msg.minor, ICC_EVENT)

\* handle_message(sc): what it logs, and the state it leaves
handle_message ==
    LET msg  == spm.rep.hdr
        keep == [icc |-> icc, buf |-> buf, acc |-> accepted, log |-> "none"]
    IN  IF ~ReplySlotReady(spm.rep.empty, spm.rep.full)
        THEN [keep EXCEPT !.log = "bad_state"]
        ELSE IF IsEvent(msg)
        THEN IF msg.magic # ICC_EVENT_MAGIC
             THEN [keep EXCEPT !.log = "event_bad_magic"]
             ELSE [keep EXCEPT !.log = handle_event(msg)]
        ELSE IF HasBit(msg.minor, ICC_REPLY)
        THEN IF msg.magic # ICC_MAGIC
             THEN [keep EXCEPT !.log = "reply_bad_magic"]
             ELSE IF ~ReplyExpected
             THEN [keep EXCEPT !.log = "unexpected_reply"]
             ELSE IF ~CookieMatches(msg)
             THEN [keep EXCEPT !.log = "bad_cookie"]
             ELSE IF ~LengthInBounds(msg)
             THEN [keep EXCEPT !.log = "bad_length"]
             ELSE
               LET copy_size == CopySize(icc.reply_length, msg)
                   payload   == WindowPayload(spm.rep,
                                              msg.length - ICC_HDR_SIZE)
               IN [icc |-> [icc EXCEPT
                              !.reply_extra_checksum =
                                   ExtraChecksum(payload, copy_size),
                              !.reply_pending = FALSE,
                              !.reply_length = copy_size,
                              !.reply = msg],
                   buf |-> IF icc.reply_buffer \in Threads
                           THEN [buf EXCEPT ![icc.reply_buffer] =
                                    CopyInto(@, Take(payload, copy_size))]
                           ELSE buf,
                   acc |-> << [hdr |-> msg, data |-> payload,
                               g_for |-> spm.rep.g_for] >>,
                   log |-> "accepted"]
        ELSE [keep EXCEPT !.log = "unknown_message"]

\* the REPLY frames the reactor turns away with a request pending (history)
ReplyRejections == {"reply_bad_magic", "bad_cookie", "bad_length"}

\* (faulty variant: the slot is left as the remote filled it)
DrainReply_Keep(rep) == rep

\* lines 165-166: iowrite32(0, REPLY + BUF_FULL); iowrite32(1, REPLY +
\* BUF_EMPTY); the frame of a slot given back is dead to the host
DrainReply(rep) == IdleReplySlot

\* lines 146-159: the handler is entered (the line is shared: also with no
\* bit pending) or loops; it reads STATUS and acknowledges the ACK bit
IrqRead ==
    /\ \/ irq.pc = "idle" /\ icc_sc
       \/ irq.pc = "read"
    /\ LET status == regs.status
       IN  /\ regs' = [regs EXCEPT !.status =
                          IF APCIE_ICC_ACK \in status
                          THEN @ \ {APCIE_ICC_ACK} ELSE @]
           /\ irq' = [pc |-> "send",
                      status |-> status,
                      ret |-> IF APCIE_ICC_ACK \in status THEN "IRQ_HANDLED"
                              ELSE IF irq.pc = "idle" THEN IrqInitialRet
                              ELSE irq.ret,
                      log |-> "none",
                      obs |-> \/ irq.pc # "idle" /\ irq.obs
                              \/ status \cap {APCIE_ICC_ACK, APCIE_ICC_SEND}
                                    # {}]
    /\ UNCHANGED << bpcie_initialized, icc_sc, icc_mutex, icc, spm,
                    callerVars, buf, ncalls, nlocked, nframes, seen,
                    ghostVars >>
    /\ UNCHANGED extVars

\* lines 161-171: with SEND pending, clear the bit, handle the frame in the
\* reply slot, return the slot to idle and ACK the doorbell, then loop;
\* without SEND, leave the loop unless status was nonzero.
\* An idle slot belongs to the remote, which retires the frame: its bytes
\* are dead to the host until the slot is full again.
IrqSend ==
    /\ irq.pc = "send"
    /\ IF APCIE_ICC_SEND \in irq.status
       THEN LET out == handle_message
            IN  /\ regs' = [regs EXCEPT
                              !.status = @ \ {APCIE_ICC_SEND},
                              !.doorbell = @ \cup {APCIE_ICC_ACK}]
                /\ icc' = out.icc
                /\ buf' = out.buf
                /\ spm' = [spm EXCEPT !.rep = DrainReply(@)]
                /\ accepted' = out.acc
                /\ drops' = IF out.log \in ReplyRejections /\ icc.reply_pending
                            THEN drops \cup {<< out.log, spm.rep.g_for >>}
                            ELSE drops
                /\ irq' = [irq EXCEPT !.log = out.log,
                                      !.ret = "IRQ_HANDLED", !.pc = "read"]
       ELSE /\ irq' = IF irq.status # {} THEN [irq EXCEPT !.pc = "read"]
                                         ELSE IrqIdle
            /\ UNCHANGED << regs, icc, buf, spm, accepted, drops >>
    /\ UNCHANGED << bpcie_initialized, icc_sc, icc_mutex, callerVars,
                    ncalls, nlocked, nframes, seen, prev >>
    /\ UNCHANGED extVars

(***************************************************************************)
(* The remote co-processor (environment).                                  *)
(***************************************************************************)
\* the checksum a frame must carry: all header bytes with the checksum field
\* taken as zero, plus all payload bytes, modulo 2^16
WireChecksum(hdr, data) ==
    (checksum(HdrBytes([hdr EXCEPT !.checksum = 0])) + checksum(data)) % U16Mod

Sealed(hdr, data) == [hdr EXCEPT !.checksum = WireChecksum(hdr, data)]

\* the well-formed reply to request r carrying payload p
GoodReply(r, p) ==
    Sealed([magic |-> ICC_MAGIC, major |-> r.major,
            minor |-> OrBit(r.minor, ICC_REPLY), unknown |-> 0,
            cookie |-> r.cookie, length |-> ICC_HDR_SIZE + Len(p),
            checksum |-> 0], p)

ReplyVariants ==
    {"good", "bad_sum", "bad_cookie", "bad_major", "bad_minor", "bad_magic",
     "short", "long"}

\* a reply frame to request r: well formed, or wrong in exactly one respect
\* (bad_sum: the checksum leaves out the last payload byte, which is nonzero)
MkReply(r, p, v) ==
    LET g == GoodReply(r, p)
        h == CASE v = "good"       -> g
               [] v = "bad_sum"    ->
                      [g EXCEPT !.checksum = (@ + U16Mod - p[Len(p)]) % U16Mod]
               [] v = "bad_cookie" ->
                      Sealed([g EXCEPT !.cookie = (@ + 1) % U16Mod], p)
               [] v = "bad_major"  -> Sealed([g EXCEPT !.major = @ + 1], p)
               [] v = "bad_minor"  -> Sealed([g EXCEPT !.minor = @ + 1], p)
               [] v = "bad_magic"  ->
                      Sealed([g EXCEPT !.magic = ICC_EVENT_MAGIC], p)
               [] v = "short"      ->
                      Sealed([g EXCEPT !.length = ICC_HDR_SIZE - 1], p)
               [] v = "long"       ->
                      Sealed([g EXCEPT !.length = ICC_MAX_SIZE + 1], p)
    IN  [hdr |-> h, data |-> p,
         g_for |-> IF v = "bad_cookie" THEN 0 ELSE r.serial]

\* event and flag-less frames: power button press, an unsupported event, an
\* event with the wrong magic, a frame with neither flag
MkOther(major, minor, magic) ==
    [hdr |-> Sealed([magic |-> magic, major |-> major, minor |-> minor,
                     unknown |-> 0, cookie |-> 0, length |-> ICC_MIN_SIZE,
                     checksum |-> 0], Zeros(ICC_MIN_PAYLOAD)),
     data |-> Zeros(ICC_MIN_PAYLOAD), g_for |-> 0]

OtherFrames ==
    { MkOther(8, ICC_EVENT + 16, ICC_EVENT_MAGIC),
      MkOther(9, ICC_EVENT + 1, ICC_EVENT_MAGIC),
      MkOther(8, ICC_EVENT + 16, ICC_MAGIC),
      MkOther(2, 6, ICC_MAGIC) }

\* replies to the requests the remote has read: well formed with either
\* payload, with a wrong checksum, with a cookie no request carries
CoreFrames ==
    { MkReply(r, p, "good") : r \in seen, p \in ReplyPayloads }
    \cup { MkReply(r, <<0, 0, 0, 8>>, "bad_sum") : r \in seen }
    \cup { MkReply(r, <<7>>, "bad_cookie") : r \in seen }

\* every kind of frame: the replies above, replies to a read request that
\* fail one of the other tests, events and a frame with neither flag
AllFrames ==
    CoreFrames
    \cup { MkReply(r, <<7>>, v) :
              r \in seen,
              v \in {"bad_major", "bad_minor", "bad_magic", "short", "long"} }
    \cup OtherFrames

\* the reply to request r with the EVENT flag set as well, under either
\* magic
EventReply(r, p, magic) ==
    [hdr |-> Sealed([GoodReply(r, p) EXCEPT
                        !.minor = OrBit(@, ICC_EVENT), !.magic = magic], p),
     data |-> p, g_for |-> r.serial]

\* frames with the EVENT flag (both power button events, an unsupported
\* event, an event with the wrong magic, replies carrying the flag) and the
\* well-formed replies
EventFrames ==
    (OtherFrames \ { MkOther(2, 6, ICC_MAGIC) })
    \cup { MkOther(8, ICC_EVENT + 17, ICC_EVENT_MAGIC) }
    \cup { EventReply(r, <<7>>, m) :
               r \in seen, m \in {ICC_MAGIC, ICC_EVENT_MAGIC} }
    \cup { MkReply(r, <<7>>, "good") : r \in seen }

\* the remote answers the doorbell: reads the request, scrubs the request
\* slot and returns it to idle, and raises ACK in STATUS
RemoteTake ==
    /\ APCIE_ICC_SEND \in regs.doorbell
    /\ seen' = seen \cup {[cookie |-> spm.req.hdr.cookie,
                           major |-> spm.req.hdr.major,
                           minor |-> spm.req.hdr.minor,
                           serial |-> spm.req.g_hdr]}
    /\ spm' = [spm EXCEPT !.req = IdleSlot]
    /\ regs' = [regs EXCEPT !.doorbell = @ \ {APCIE_ICC_SEND},
                            !.status = @ \cup {APCIE_ICC_ACK}]
    /\ UNCHANGED << bpcie_initialized, icc_sc, icc_mutex, icc, callerVars,
                    buf, irq, ncalls, nlocked, nframes, ghostVars >>
    /\ UNCHANGED extVars

\* the remote places a frame in the idle reply slot and raises SEND in STATUS
RemoteSendOf(frames) ==
    /\ nframes < MaxFrames
    /\ spm.rep.empty = 1 /\ spm.rep.full = 0
    /\ APCIE_ICC_SEND \notin regs.status
    /\ \E f \in frames :
          spm' = [spm EXCEPT !.rep = [empty |-> 0, full |-> 1,
                                      hdr |-> f.hdr, data |-> f.data,
                                      g_for |-> f.g_for]]
    /\ regs' = [regs EXCEPT !.doorbell = @ \ {APCIE_ICC_ACK},
                            !.status = @ \cup {APCIE_ICC_SEND}]
    /\ nframes' = nframes + 1
    /\ UNCHANGED << bpcie_initialized, icc_sc, icc_mutex, icc, callerVars,
                    buf, irq, ncalls, nlocked, seen, ghostVars >>
    /\ UNCHANGED extVars

RemoteSend == RemoteSendOf(CoreFrames)

RemoteSendAny == RemoteSendOf(AllFrames)

RemoteSendEvent == RemoteSendOf(EventFrames)

\* the remote raises SEND in STATUS without having filled the reply slot
RemoteRaise ==
    /\ nframes < MaxFrames
    /\ spm.rep.empty = 1 /\ spm.rep.full = 0
    /\ APCIE_ICC_SEND \notin regs.status
    /\ regs' = [regs EXCEPT !.doorbell = @ \ {APCIE_ICC_ACK},
                            !.status = @ \cup {APCIE_ICC_SEND}]
    /\ nframes' = nframes + 1
    /\ UNCHANGED << bpcie_initialized, icc_sc, icc_mutex, icc, spm,
                    callerVars, buf, irq, ncalls, nlocked, seen, ghostVars >>
    /\ UNCHANGED extVars

(***************************************************************************)
(* apcie_icc_remove: the part that touches the transport state.            *)
(***************************************************************************)
\* lines 570-574: under icc_mutex mask the interrupts and unset icc_sc, then
\* free_irq (which waits for a running handler)
Remove ==
    /\ icc_sc
    /\ MutexAvailable
    /\ irq.pc = "idle"
    /\ icc_sc' = FALSE
    /\ regs' = [regs EXCEPT !.irq_mask = {}]
    /\ UNCHANGED << bpcie_initialized, icc_mutex, icc, spm, callerVars, buf,
                    irq, ncalls, nlocked, nframes, seen, ghostVars >>
    /\ UNCHANGED extVars

(***************************************************************************)
(* Specifications.                                                         *)
(***************************************************************************)
Sender(t) ==
    \/ Call(t) \/ CallBpcie(t) \/ Lock(t) \/ Build(t) \/ CheckSlot(t)
    \/ WriteEmpty(t) \/ WriteHdr(t) \/ WriteData(t) \/ WriteFull(t)
    \/ SetPending(t) \/ RingDoorbell(t)
    \/ WaitDone(t) \/ WaitTimeout(t)
    \/ AfterWait(t) \/ Verify(t) \/ Unlock(t)

Reactor == IrqRead \/ IrqSend

Remote == RemoteTake \/ RemoteSend

Next == (\E t \in Threads : Sender(t)) \/ Reactor \/ Remote \/ Remove

\* the program: every call comes through apcie_icc_cmd (intr = false)
Spec == Init /\ [][Next]_vars

\* calls of apcie_icc_cmd with a single argument list
LockOne(t) == LockWith(t, OneArgs)

SenderOne(t) ==
    \/ Call(t) \/ CallBpcie(t) \/ LockOne(t) \/ Build(t) \/ CheckSlot(t)
    \/ WriteEmpty(t) \/ WriteHdr(t) \/ WriteData(t) \/ WriteFull(t)
    \/ SetPending(t) \/ RingDoorbell(t)
    \/ WaitDone(t) \/ WaitTimeout(t)
    \/ AfterWait(t) \/ Verify(t) \/ Unlock(t)

\* one calling thread: mutual exclusion of callers is the subject of Spec
NextFrames ==
    \/ SenderOne("t1")
    \/ Reactor
    \/ RemoteTake \/ RemoteSendAny \/ RemoteRaise
    \/ Remove

\* the program against a remote that sends every kind of frame
SpecFrames == Init /\ [][NextFrames]_vars

NextEvents ==
    \/ SenderOne("t1")
    \/ Reactor
    \/ RemoteTake \/ RemoteSendEvent
    \/ Remove

\* the program against a remote that sends events of every kind
SpecEvents == Init /\ [][NextEvents]_vars

\* calls of apcie_icc_cmd with payloads of every kind of length, to a remote
\* that takes the requests and never answers
LockLen(t) == LockWith(t, LenArgs)

SenderLen(t) ==
    \/ Call(t) \/ CallBpcie(t) \/ LockLen(t) \/ Build(t) \/ CheckSlot(t)
    \/ WriteEmpty(t) \/ WriteHdr(t) \/ WriteData(t) \/ WriteFull(t)
    \/ SetPending(t) \/ RingDoorbell(t)
    \/ WaitTimeout(t) \/ AfterWait(t) \/ Unlock(t)

NextLen ==
    \/ \E t \in Threads : SenderLen(t)
    \/ Reactor
    \/ RemoteTake
    \/ Remove

SpecLen == Init /\ [][NextLen]_vars

\* _apcie_icc_cmd entered with intr = true
LockCmd(t) == LockWith(t, CmdArgs)

SenderCmd(t) ==
    \/ Call(t) \/ CallBpcie(t) \/ LockCmd(t) \/ Build(t) \/ CheckSlot(t)
    \/ WriteEmpty(t) \/ WriteHdr(t) \/ WriteData(t) \/ WriteFull(t)
    \/ SetPending(t) \/ RingDoorbell(t)
    \/ WaitDone(t) \/ WaitTimeout(t) \/ WaitInterrupted(t)
    \/ AfterWait(t) \/ Verify(t) \/ Unlock(t)

NextCmd == (\E t \in Threads : SenderCmd(t)) \/ Reactor \/ Remote \/ Remove

\* the sender as a function: _apcie_icc_cmd called with intr = true, whose
\* wait can end by a signal as well as by the reply or the timeout
SpecCmd == Init /\ [][NextCmd]_vars

(***************************************************************************)
(* Properties.                                                             *)
(***************************************************************************)
\* the positions of _apcie_icc_cmd, from frame construction to the return
CmdStates ==
    {"build", "check", "w_empty", "w_hdr", "w_data", "w_full", "pend",
     "bell", "wait", "after", "verify", "unlock"}

InCmd(t) == pc[t] \in CmdStates

\* the call of t went through the wait and the reactor accepted a frame that
\* is the well-formed reply to its request
Delivered(t) ==
    /\ accepted # <<>>
    /\ LET f == accepted[1]
       IN  /\ f.hdr.magic = ICC_MAGIC
           /\ f.hdr.cookie = icc.request.cookie
           /\ f.hdr.checksum = WireChecksum(f.hdr, f.data)
           /\ f.hdr.major = args[t].major
           /\ f.hdr.minor = OrBit(args[t].minor, ICC_REPLY)

\* the call of t is about to return the reply's payload length, with the
\* first min(reply_length, payload length) payload bytes in its buffer
ReturnsReply(t) ==
    LET f == accepted[1]
        n == Min(args[t].reply_length, f.hdr.length - ICC_HDR_SIZE)
    IN  /\ ret[t] = f.hdr.length - ICC_HDR_SIZE
        /\ err[t] = "none"
        /\ Len(buf[t]) = args[t].reply_length
        /\ SubSeq(buf[t], 1, n) = SubSeq(f.data, 1, n)
        /\ \A i \in (n + 1)..Len(buf[t]) : buf[t][i] = 170

\* C1: at most one request is between frame construction and return, it is
\* the mutex owner's (every other caller waits at the mutex), and the header
\* and the payload in the request slot are never those of two requests
C1_SingleOutstanding ==
    /\ \A t, u \in Threads : InCmd(t) /\ InCmd(u) => t = u
    /\ \A t \in Threads : InCmd(t) => icc_mutex = t
    /\ spm.req.full = 1 => spm.req.g_hdr = spm.req.g_data
    /\ \A t \in Threads :
          pc[t] \in {"w_full", "pend", "bell"} =>
              /\ spm.req.g_hdr = serial[t]
              /\ spm.req.g_data = serial[t]
              /\ spm.req.hdr = icc.request
              /\ spm.req.data = PaddedData(args[t].data)

\* a second caller is held at the mutex while the first waits for its reply
C1_Witness ==
    \E t, u \in Threads :
        t # u /\ pc[t] = "wait" /\ pc[u] = "lock" /\ spm.req.full = 1

\* C2: a well-formed reply accepted for a request makes the call return the
\* reply's payload length and leaves the first min(reply_capacity, length)
\* payload bytes in the caller's buffer
C2_ReplyDelivered ==
    \A t \in Threads :
        pc[t] = "unlock" /\ Delivered(t) => ReturnsReply(t)

\* a 4-byte reply returned into a 2-byte buffer
C2_Witness ==
    \E t \in Threads :
        /\ pc[t] = "unlock" /\ Delivered(t)
        /\ ret[t] = 4 /\ args[t].reply_length = 2 /\ buf[t] = <<0, 0>>

\* the reactor is handling a REPLY frame with good magic and a cookie other
\* than the outstanding request's, while a request is pending
BadCookieStep ==
    /\ irq.pc = "send" /\ APCIE_ICC_SEND \in irq.status /\ irq'.pc = "read"
    /\ ReplySlotReady(spm.rep.empty, spm.rep.full)
    /\ ~HasBit(spm.rep.hdr.minor, ICC_EVENT)
    /\ HasBit(spm.rep.hdr.minor, ICC_REPLY)
    /\ spm.rep.hdr.magic = ICC_MAGIC
    /\ icc.reply_pending
    /\ spm.rep.hdr.cookie # icc.request.cookie

\* C3: a reply with another cookie leaves the pending flag set, the waiter
\* waiting and the caller's buffer untouched, and after it a reply with the
\* right cookie still completes the same request
C3_BadCookieIgnored ==
    /\ [][BadCookieStep =>
            /\ icc' = icc
            /\ icc'.reply_pending
            /\ buf' = buf
            /\ pc' = pc]_vars
    /\ [](\A t \in Threads :
            pc[t] = "unlock" /\ (\E g \in 0..MaxCalls : <<"bad_cookie", g>> \in drops)
                /\ Delivered(t) => ReturnsReply(t))

\* a request that saw a wrong-cookie reply and then completed
C3_Witness ==
    \E t \in Threads :
        /\ pc[t] = "unlock"
        /\ \E g \in 0..MaxCalls : <<"bad_cookie", g>> \in drops
        /\ Delivered(t) /\ ReturnsReply(t)

\* the call of t is returning after it went through the wait
Waited(t) == pc[t] = "unlock" /\ err[t] \notin {"e2big", "busy"}

\* the return of a call whose wait failed
WaitFailures == {0 - EINTR, 0 - ETIMEDOUT}

\* C4: a wait broken by a signal makes the call return Interrupted; a wait
\* that timed out, with no reply accepted before the reply lock is retaken,
\* makes it return Timeout; either way the pending flag is clear, and no
\* call that went through the wait leaves a reference to its reply buffer
C4_WaitFailureCleansUp ==
    \A t \in Threads :
        Waited(t) =>
            /\ wret[t] < 0 => ret[t] = 0 - EINTR
            /\ wret[t] = 0 /\ accepted = <<>> => ret[t] = 0 - ETIMEDOUT
            /\ ret[t] \in WaitFailures => ~icc.reply_pending
            /\ icc.reply_buffer = NULL

\* an interrupted wait returned as Interrupted, with the flag cleared
C4_Witness ==
    \E t \in Threads :
        /\ Waited(t) /\ wret[t] < 0 /\ ret[t] = 0 - EINTR
        /\ ~icc.reply_pending /\ icc.reply_buffer = NULL

\* C4 as written: every wait that ended by timeout returns Timeout, every
\* interrupted one Interrupted
C4_Original ==
    \A t \in Threads :
        Waited(t) =>
            /\ wret[t] < 0 => ret[t] = 0 - EINTR
            /\ wret[t] = 0 => ret[t] = 0 - ETIMEDOUT
            /\ wret[t] <= 0 => ~icc.reply_pending
            /\ icc.reply_buffer = NULL

UnexpectedReplyStep ==
    /\ irq.pc = "send" /\ APCIE_ICC_SEND \in irq.status /\ irq'.pc = "read"
    /\ ReplySlotReady(spm.rep.empty, spm.rep.full)
    /\ ~HasBit(spm.rep.hdr.minor, ICC_EVENT)
    /\ HasBit(spm.rep.hdr.minor, ICC_REPLY)
    /\ spm.rep.hdr.magic = ICC_MAGIC
    /\ ~icc.reply_pending

\* C6: a reply handled while nothing is pending is logged as unexpected and
\* changes neither the pending flag, the saved reply, the extra checksum (all
\* of icc) nor any caller's buffer
C6_UnexpectedReplyDiscarded ==
    [][UnexpectedReplyStep =>
          /\ irq'.log = "unexpected_reply"
          /\ icc' = icc
          /\ buf' = buf
          /\ accepted' = accepted]_vars

\* the late reply to a timed-out request, discarded
C6_Witness ==
    /\ irq.log = "unexpected_reply"
    /\ prev = "timeout"
    /\ ~icc.reply_pending
    /\ \E r \in seen : r.cookie = icc.request.cookie

\* C7: a call returns success only after the reactor accepted a frame with
\* the cookie of its request, and that frame is never the reply to an earlier
\* request (g_for is 0 for a frame that answers no request)
C7_SuccessByOwnCookie ==
    \A t \in Threads :
        pc[t] = "unlock" /\ Waited(t) /\ err[t] = "none" =>
            /\ accepted # <<>>
            /\ accepted[1].hdr.cookie = icc.request.cookie
            /\ accepted[1].g_for \in {0, serial[t]}
            /\ \A r \in seen :
                  r.serial < serial[t] => r.cookie # icc.request.cookie

\* the second request succeeding after the late reply to the first was
\* turned away
C7_Witness ==
    \E t \in Threads :
        /\ pc[t] = "unlock" /\ err[t] = "none" /\ ret[t] > 0
        /\ serial[t] = 2
        /\ << "bad_cookie", 1 >> \in drops
        /\ accepted[1].g_for = 2

\* the arguments a carry a payload above the maximum payload size
Oversize(a) == Len(a.data) > ICC_MAX_SIZE - ICC_HDR_SIZE

\* C8: no step of a call with an oversize payload changes the cookie or
\* anything else of the mailbox state, the shared window or the registers,
\* and the call returns PayloadTooLarge straight from the size check
C8_TooLargeChangesNothing ==
    /\ [][\A t \in Threads :
            /\ pc'[t] # pc[t]
            /\ \/ pc[t] = "lock" /\ pc'[t] = "build" /\ Oversize(args'[t])
               \/ pc[t] \in {"build", "unlock"} /\ Oversize(args[t])
            => /\ icc' = icc /\ spm' = spm /\ regs' = regs
               /\ pc[t] = "build" =>
                     pc'[t] = "unlock" /\ ret'[t] = 0 - E2BIG
               /\ pc[t] = "unlock" => pc'[t] = "idle"]_vars
    /\ [](\A t \in Threads :
            InCmd(t) /\ Oversize(args[t]) =>
                /\ pc[t] \in {"build", "unlock"}
                /\ pc[t] = "unlock" => ret[t] = 0 - E2BIG /\ err[t] = "e2big")

\* an oversize call about to return
C8_Witness ==
    \E t \in Threads :
        /\ pc[t] = "unlock" /\ Oversize(args[t])
        /\ ret[t] = 0 - E2BIG
        /\ Len(args[t].data) = ICC_MAX_PAYLOAD + 1

\* C9: the slot check on a slot that is not idle sends the call straight to
\* its return with TransportBusy, and neither that step nor the return writes
\* the window, a register or the pending flag
C9_BusyWithoutWrites ==
    /\ [][\A t \in Threads :
            /\ pc[t] = "check" /\ pc'[t] # "check"
            /\ ~(spm.req.empty = 1 /\ spm.req.full = 0)
            => /\ pc'[t] = "unlock"
               /\ ret'[t] = 0 - EIO /\ err'[t] = "busy"
               /\ spm' = spm /\ regs' = regs
               /\ icc'.reply_pending = icc.reply_pending]_vars
    /\ [][\A t \in Threads :
            pc[t] = "unlock" /\ err[t] = "busy" /\ pc'[t] # "unlock"
            => /\ pc'[t] = "idle"
               /\ spm' = spm /\ regs' = regs
               /\ icc'.reply_pending = icc.reply_pending]_vars
    /\ [](\A t \in Threads :
            pc[t] = "unlock" /\ err[t] = "busy" =>
                ret[t] = 0 - EIO /\ ~icc.reply_pending)

\* a call turned away because the previous frame is still in the slot
C9_Witness ==
    \E t \in Threads :
        /\ pc[t] = "unlock" /\ err[t] = "busy" /\ ret[t] = 0 - EIO
        /\ spm.req.full = 1 /\ spm.req.empty = 0
        /\ spm.req.g_hdr < serial[t]

\* the call of t went through the checksum test of the reply it was given
Verified(t) ==
    pc[t] = "unlock" /\ err[t] \in {"none", "checksum", "major", "minor"}

\* C10: a call that reached the checksum test fails with ChecksumMismatch
\* exactly when the accepted frame's checksum field differs from the sum,
\* modulo 2^16, of its header bytes (field taken as zero) and all of its
\* payload bytes, copied out or not; so success implies they are equal
C10_ChecksumCoversWholeFrame ==
    \A t \in Threads :
        Verified(t) =>
            /\ accepted # <<>>
            /\ LET f == accepted[1]
                   sum == WireChecksum(f.hdr, f.data)
               IN  /\ err[t] = "none" => f.hdr.checksum = sum
                   /\ f.hdr.checksum # sum =>
                         err[t] = "checksum" /\ ret[t] = 0 - EIO
                   /\ f.hdr.checksum = sum => err[t] # "checksum"

\* a reply whose checksum leaves out a byte beyond the caller's capacity,
\* rejected
C10_Witness ==
    \E t \in Threads :
        /\ Verified(t) /\ err[t] = "checksum"
        /\ accepted # <<>>
        /\ Len(accepted[1].data) > args[t].reply_length
        /\ accepted[1].hdr.checksum =
              WireChecksum(accepted[1].hdr,
                           Take(accepted[1].data, Len(accepted[1].data) - 1))

(***************************************************************************)
(* C11: the reply must answer the request's command.                       *)
(***************************************************************************)
\* the accepted frame carries the sum of its own bytes
ChecksumValid(f) == f.hdr.checksum = WireChecksum(f.hdr, f.data)

\* the accepted frame names the command of the call of t
SameCommand(f, t) ==
    /\ f.hdr.major = args[t].major
    /\ f.hdr.minor = OrBit(args[t].minor, ICC_REPLY)

\* C11: a call succeeds only if the accepted reply's major equals the
\* request's major and its minor equals the request's minor with the REPLY
\* flag set; an accepted (cookie-matching) reply with a valid checksum that
\* differs in either fails with ReplyMismatch (-EIO)
C11_ReplyAnswersCommand ==
    \A t \in Threads :
        Verified(t) /\ accepted # <<>> =>
            LET f == accepted[1]
            IN  /\ err[t] = "none" => SameCommand(f, t)
                /\ ChecksumValid(f) /\ ~SameCommand(f, t) =>
                      /\ err[t] \in {"major", "minor"}
                      /\ ret[t] = 0 - EIO
                /\ err[t] = "major" => f.hdr.major # args[t].major
                /\ err[t] = "minor" =>
                      f.hdr.minor # OrBit(args[t].minor, ICC_REPLY)

\* a reply with the request's cookie and major and a valid checksum but
\* another minor, failed with ReplyMismatch
C11_Witness ==
    \E t \in Threads :
        /\ Verified(t) /\ err[t] = "minor" /\ ret[t] = 0 - EIO
        /\ accepted # <<>>
        /\ ChecksumValid(accepted[1])
        /\ accepted[1].g_for = serial[t]
        /\ accepted[1].hdr.major = args[t].major
        /\ accepted[1].hdr.minor # OrBit(args[t].minor, ICC_REPLY)

(***************************************************************************)
(* C12: the request frame in the window is well formed.                    *)
(***************************************************************************)
\* s read from its last element to its first
Reverse(s) == [i \in 1..Len(s) |-> s[Len(s) + 1 - i]]

\* the 12 header bytes with the two-byte fields stored high byte first
HdrBytesBE(h) ==
    << h.magic, h.major,
       h.minor \div U8Mod, h.minor % U8Mod,
       h.unknown \div U8Mod, h.unknown % U8Mod,
       h.cookie \div U8Mod, h.cookie % U8Mod,
       h.length \div U8Mod, h.length % U8Mod,
       h.checksum \div U8Mod, h.checksum % U8Mod >>

\* the request slot holds a complete frame, written by the call of t
Posted(t) ==
    /\ spm.req.full = 1
    /\ serial[t] # 0
    /\ spm.req.g_hdr = serial[t] /\ spm.req.g_data = serial[t]

\* C12: every request frame written to the window is well formed: its length
\* field is max(header size + payload length, minimum frame size); a payload
\* shorter than the minimum is followed by zero bytes up to the minimum; its
\* checksum field is the sum modulo 2^16 of all header bytes (checksum field
\* taken as zero) and all payload bytes, in whatever order the bytes are
\* taken and whichever byte of a field comes first
C12_RequestWellFormed ==
    \A t \in Threads :
        Posted(t) =>
            LET h == spm.req.hdr
                d == spm.req.data
                n == Len(args[t].data)
                h0 == [h EXCEPT !.checksum = 0]
            IN  /\ h.length = Max(ICC_HDR_SIZE + n, ICC_MIN_SIZE)
                /\ h.length = ICC_HDR_SIZE + Len(d)
                /\ Take(d, n) = args[t].data
                /\ \A i \in (n + 1)..Len(d) : d[i] = 0
                /\ h.checksum =
                      checksum(HdrBytes(h0) \o args[t].data)
                /\ h.checksum = checksum(HdrBytes(h0) \o d)
                /\ h.checksum = checksum(Reverse(HdrBytes(h0) \o d))
                /\ h.checksum = checksum(d \o HdrBytesBE(h0))

\* a one-byte payload posted as a minimum-size frame, its padding zero
C12_Witness ==
    \E t \in Threads :
        /\ Posted(t)
        /\ Len(args[t].data) = 1
        /\ spm.req.hdr.length = ICC_MIN_SIZE
        /\ Len(spm.req.data) = ICC_MIN_PAYLOAD
        /\ spm.req.data[ICC_MIN_PAYLOAD] = 0

\* the longest payload posted: the plain sum of its bytes passes 2^16
C12_WitnessWrap ==
    \E t \in Threads :
        /\ Posted(t)
        /\ Len(args[t].data) = ICC_MAX_PAYLOAD
        /\ spm.req.hdr.length = ICC_MAX_SIZE
        /\ SumRange(spm.req.data, 1, Len(spm.req.data)) > U16Mod

(***************************************************************************)
(* C13: the reply slot is given back after every SEND.                     *)
(***************************************************************************)
\* what handle_message can make of the reply slot
MessageKinds ==
    {"accepted", "pwrbutton_1", "pwrbutton_0", "event_unsupported",
     "event_bad_magic", "bad_state", "reply_bad_magic", "bad_cookie",
     "bad_length", "unexpected_reply", "unknown_message"}

\* the reactor has just handled the SEND bit it had read
HandledSend ==
    /\ irq.pc = "send" /\ APCIE_ICC_SEND \in irq.status
    /\ irq' # irq

\* C13: each time the reactor handles a SEND status bit, whatever it makes of
\* the reply slot (valid reply, event, bad ring state, bad magic, bad cookie,
\* bad length, unexpected reply, unknown message), it finishes with the reply
\* slot idle (full = 0, empty = 1) and ACK written to the doorbell
C13_SlotReturnedAfterSend ==
    [][ HandledSend =>
          /\ irq'.log \in MessageKinds
          /\ spm'.rep.full = 0 /\ spm'.rep.empty = 1
          /\ APCIE_ICC_ACK \in regs'.doorbell ]_vars

\* a frame turned away for its length, the slot idle and the doorbell rung
\* before the handler reads STATUS again
C13_Witness ==
    /\ irq.pc = "read" /\ irq.log = "bad_length"
    /\ spm.rep.full = 0 /\ spm.rep.empty = 1
    /\ APCIE_ICC_ACK \in regs.doorbell

(***************************************************************************)
(* C14: an interrupt that is not the mailbox's is not claimed.             *)
(***************************************************************************)
IccBits == {APCIE_ICC_ACK, APCIE_ICC_SEND}

\* a step of the handler that has neither bit before it: the read of a
\* STATUS without them, or the end of a pass that had read none
BlankStep ==
    \/ /\ irq.pc \in {"idle", "read"} /\ irq'.pc = "send"
       /\ regs.status \cap IccBits = {}
    \/ /\ irq.pc = "send" /\ irq' # irq
       /\ irq.status \cap IccBits = {}

\* the handler returns
IrqReturns == irq.pc = "send" /\ irq'.pc = "idle"

\* C14: an invocation of the reactor that observes neither ACK nor SEND in
\* STATUS returns "not handled" and changes no mailbox state, no reply-slot
\* flag and no register; it returns "handled" exactly when it observed, and
\* cleared, at least one of the two bits
C14_SpuriousNotHandled ==
    /\ [](irq.pc # "idle" /\ irq.ret = "IRQ_HANDLED" => irq.obs)
    /\ [][ /\ BlankStep => UNCHANGED << icc, spm, regs, buf >>
           /\ IrqReturns =>
                 /\ irq.ret \in {"IRQ_NONE", "IRQ_HANDLED"}
                 /\ irq.ret = "IRQ_HANDLED" <=> irq.obs
           /\ irq.pc \in {"idle", "read"} /\ irq'.pc = "send"
                 /\ APCIE_ICC_ACK \in regs.status =>
                 APCIE_ICC_ACK \notin regs'.status
           /\ HandledSend => APCIE_ICC_SEND \notin regs'.status ]_vars

\* the handler, entered with a request pending and neither bit in STATUS,
\* about to return "not handled"
C14_Witness ==
    /\ irq.pc = "send" /\ irq.status = {}
    /\ ~irq.obs /\ irq.ret = "IRQ_NONE"
    /\ icc.reply_pending
    /\ APCIE_ICC_SEND \in regs.doorbell

(***************************************************************************)
(* C15: a malformed reply is dropped in silence.                           *)
(***************************************************************************)
\* the reply slot holds a REPLY-flagged frame with a wrong magic or with a
\* length outside [ICC_HDR_SIZE, ICC_MAX_SIZE]
MalformedReply ==
    /\ spm.rep.empty = 0 /\ spm.rep.full = 1
    /\ ~HasBit(spm.rep.hdr.minor, ICC_EVENT)
    /\ HasBit(spm.rep.hdr.minor, ICC_REPLY)
    /\ \/ spm.rep.hdr.magic # ICC_MAGIC
       \/ spm.rep.hdr.length < ICC_HDR_SIZE
       \/ spm.rep.hdr.length > ICC_MAX_SIZE

\* the rejections of the call of t recorded for a wrong magic or length
MalformedDrops(t) ==
    { d \in drops : d[1] \in {"reply_bad_magic", "bad_length"}
                    /\ d[2] = serial[t] }

\* C15: a REPLY-flagged frame rejected by the reactor for bad magic or for a
\* length outside [header size, maximum frame size] leaves the pending flag
\* set, does not wake the sender and copies nothing into the caller's
\* buffer; the blocked call learns of it only by returning Timeout
C15_MalformedReplySilent ==
    /\ [][ HandledSend /\ MalformedReply =>
             /\ irq'.log \in {"reply_bad_magic", "bad_length",
                              "unexpected_reply", "bad_cookie"}
             /\ icc.reply_pending =>
                   irq'.log # "unexpected_reply" /\ icc'.reply_pending
             /\ UNCHANGED << icc, buf, callerVars, accepted >> ]_vars
    /\ [](\A t \in Threads :
            pc[t] = "unlock" /\ MalformedDrops(t) # {} /\ accepted = <<>> =>
               ret[t] = 0 - ETIMEDOUT /\ err[t] = "timeout")

\* a call whose two replies, one with a wrong magic and one too long, were
\* both dropped, returning Timeout
C15_Witness ==
    \E t \in Threads :
        /\ pc[t] = "unlock" /\ ret[t] = 0 - ETIMEDOUT
        /\ accepted = <<>>
        /\ << "reply_bad_magic", serial[t] >> \in drops
        /\ << "bad_length", serial[t] >> \in drops

(***************************************************************************)
(* ps4_bridge.c: the i2c command queue.                                    *)
(***************************************************************************)
\* #define CMD_READ 1, 1 ... CMD_WAIT_CLEAR 3, 3
CMD_READ       == << 1, 1 >>
CMD_WRITE      == << 2, 2 >>
CMD_MASK       == << 2, 3 >>
CMD_DELAY      == << 3, 1 >>
CMD_WAIT_SET   == << 3, 2 >>
CMD_WAIT_CLEAR == << 3, 3 >>

\* #define TMONREG 0x7008, TMONREG_HPD BIT(3)
TMONREG     == 28680
TMONREG_HPD == 8

\* the fields of the struct i2c_cmd_hdr at offset c of req.cmdbuf
HdrMajor(q, c)  == q.cmdbuf[c + 1]
HdrLength(q, c) == q.cmdbuf[c + 2]
HdrMinor(q, c)  == q.cmdbuf[c + 3]
HdrCount(q, c)  == q.cmdbuf[c + 4]

\* *q->p++ = b for each byte b of bytes
PutBytes(q, bytes) ==
    [q EXCEPT !.cmdbuf = @ \o bytes, !.p = @ + Len(bytes)]

\* (faulty variant: every emitter opens a group)
SameGroup_Never(q, major, minor) == FALSE

\* the negation of !q->cmd || q->cmd->major != major || q->cmd->minor != minor
SameGroup(q, major, minor) ==
    /\ q.cmd # NullOffset
    /\ HdrMajor(q, q.cmd) = major
    /\ HdrMinor(q, q.cmd) = minor

\* q->cmd->length = q->p - (u8 *)q->cmd, on a u8
CloseGroup(q) ==
    [q EXCEPT !.cmdbuf[q.cmd + 2] = (q.p - q.cmd) % U8Mod]

\* static void cq_init(struct i2c_cmdqueue *q, u8 code); what it leaves in
\* req.length and req.cmdbuf is not read before cq_exec and the emitters
\* have written it again, and is dropped here
cq_init(q, code) ==
    [q EXCEPT !.code = code, !.count = 0, !.length = 0, !.cmdbuf = <<>>,
              !.p = 0, !.cmd = NullOffset]

\* static void cq_cmd(struct i2c_cmdqueue *q, u8 major, u8 minor);
\* count of the header and req.count are u8
cq_cmd(q, major, minor) ==
    IF ~SameGroup(q, major, minor)
    THEN LET q1 == IF q.cmd # NullOffset THEN CloseGroup(q) ELSE q
             q2 == PutBytes(q1, << major, 0, minor, 1 >>)
         IN  [q2 EXCEPT !.cmd = q1.p, !.count = (@ + 1) % U8Mod]
    ELSE [q EXCEPT !.cmdbuf[q.cmd + 4] = (@ + 1) % U8Mod]

\* the emitters; addr and time are u16, the other operands u8
cq_read(q, addr, count) ==
    PutBytes(cq_cmd(q, CMD_READ[1], CMD_READ[2]),
             << count, addr \div U8Mod, addr % U8Mod, 0 >>)

cq_writereg(q, addr, data) ==
    PutBytes(cq_cmd(q, CMD_WRITE[1], CMD_WRITE[2]),
             << 1, addr \div U8Mod, addr % U8Mod, data >>)

cq_mask(q, addr, value, mask) ==
    PutBytes(cq_cmd(q, CMD_MASK[1], CMD_MASK[2]),
             << 1, addr \div U8Mod, addr % U8Mod, value, mask >>)

cq_delay(q, time) ==
    PutBytes(cq_cmd(q, CMD_DELAY[1], CMD_DELAY[2]),
             << 0, time % U8Mod, time \div U8Mod, 0 >>)

cq_wait_set(q, addr, mask) ==
    PutBytes(cq_cmd(q, CMD_WAIT_SET[1], CMD_WAIT_SET[2]),
             << 0, addr \div U8Mod, addr % U8Mod, mask >>)

cq_wait_clear(q, addr, mask) ==
    PutBytes(cq_cmd(q, CMD_WAIT_CLEAR[1], CMD_WAIT_CLEAR[2]),
             << 0, addr \div U8Mod, addr % U8Mod, mask >>)

\* an emitter call may be made on an initialised queue that has not been
\* executed; a long batch is the first batch and its calls are all calls
\* of the same emitter
CanEmit(e) ==
    /\ cq.p # NullOffset
    /\ ~exec.done
    /\ \/ Len(emitted) < MaxEmit
       \/ /\ Len(emitted) < MaxRun
          /\ exec.n = 0
          /\ \A i \in DOMAIN emitted : emitted[i].op = e.op

\* the emitter call e takes the queue to q
Emit(e, q) ==
    /\ CanEmit(e)
    /\ cq' = q
    /\ emitted' = Append(emitted, e)
    /\ opened' = IF q.cmd # cq.cmd THEN Append(opened, q.cmd) ELSE opened
    /\ UNCHANGED << iccVars, exec, detect, probe, ioc, br, ctl >>

\* cq_init(&mn_bridge->cq, 4), as every user of the queue starts a batch
CqInit ==
    /\ cq' = cq_init(cq, 4)
    /\ emitted' = <<>>
    /\ opened' = <<>>
    /\ exec' = [NoExec EXCEPT !.n = exec.n]
    /\ detect' = "none"
    /\ UNCHANGED << iccVars, probe, ioc, br, ctl >>

EmitRead ==
    Emit([op |-> CMD_READ, x |-> << TMONREG, 1 >>], cq_read(cq, TMONREG, 1))

EmitWriteReg ==
    LET x == WriteRegOperands(Len(emitted) + 1)
    IN  Emit([op |-> CMD_WRITE, x |-> x], cq_writereg(cq, x[1], x[2]))

EmitMask ==
    Emit([op |-> CMD_MASK, x |-> << 31371, 5, 7 >>],
         cq_mask(cq, 31371, 5, 7))

EmitDelay ==
    Emit([op |-> CMD_DELAY, x |-> << 300 >>], cq_delay(cq, 300))

EmitWaitSet ==
    Emit([op |-> CMD_WAIT_SET, x |-> << TMONREG, TMONREG_HPD >>],
         cq_wait_set(cq, TMONREG, TMONREG_HPD))

EmitWaitClear ==
    Emit([op |-> CMD_WAIT_CLEAR, x |-> << TMONREG, TMONREG_HPD >>],
         cq_wait_clear(cq, TMONREG, TMONREG_HPD))

\* offsetof(struct i2c_cmdqueue, req.cmdbuf): u8 code, u16 length, u8 count
CQ_REQ_HDR == 4
\* sizeof(q->reply): five bytes and databuf[0x7eb]
CQ_REPLY_SIZE == 2032
\* offsetof(reply, databuf)
CQ_DATABUF == 5

\* byte i (from 0) of q->reply: res1, res2, unk1, unk2, count, databuf[]
ReplyByte(q, i) == IF i < Len(q.reply) THEN q.reply[i + 1] ELSE 0

\* what a call of apcie_icc_cmd comes to: a negative errno or a reply
\* payload, of which the bytes the caller has room for are in its buffer
\* (also when the reply then fails a test of lines 242-260)
IccOutcomes ==
    { [err |-> 0 - ETIMEDOUT, data |-> <<>>],
      [err |-> 0 - EIO, data |-> << 0, 0, 0, 0, 1, 0, 0, 0, 8 >>],
      [err |-> 0, data |-> <<>>],
      [err |-> 0, data |-> << 0, 0, 0, 8 >>],
      [err |-> 0, data |-> << 5, 0, 0, 8 >>],
      [err |-> 0, data |-> << 0, 0, 0, 0, 1 >>],
      [err |-> 0, data |-> << 1, 0, 0, 0, 1 >>],
      [err |-> 0, data |-> << 0, 2, 0, 0, 1 >>],
      [err |-> 0, data |-> << 0, 0, 0, 0, 1, 0, 0, 0 >>],
      [err |-> 0, data |-> << 0, 0, 0, 0, 1, 0, 0, 0, 8 >>],
      [err |-> 0, data |-> << 0, 0, 0, 0, 1, 0, 0, 0, 247 >>] }

\* apcie_icc_cmd(0x10, 0, &q->req, length, &q->reply, reply_length): the
\* value returned (line 184: -E2BIG; line 262: reply.length - ICC_HDR_SIZE)
\* and the bytes copied into the reply buffer (line 130)
IccCmdOf(o, length, reply_length) ==
    IF PayloadTooLarge(length) THEN [res |-> 0 - E2BIG, copied |-> <<>>]
    ELSE [res |-> IF o.err < 0 THEN o.err ELSE Len(o.data),
          copied |-> Take(o.data, reply_length)]

\* (faulty variant: only a failed transport call counts)
ReplyTooShort_Negative(res) == res < 0

\* if (res < 5)
ReplyTooShort(res) == res < 5

\* if (q->reply.res1 != 0 || q->reply.res2)
StatusBad(q) == ReplyByte(q, 0) # 0 \/ ReplyByte(q, 1) # 0

\* static int cq_exec(struct i2c_cmdqueue *q), the transport call coming
\* to o: the queue it leaves, the value it returns, the message it logs
cq_exec(q, o) ==
    IF q.cmd = NullOffset
    THEN [q |-> q, res |-> 0, ret |-> 0, log |-> "none"]
    ELSE LET q1 == [CloseGroup(q) EXCEPT
                       !.length = (CQ_REQ_HDR + q.p) % U16Mod]
             r  == IccCmdOf(o, q1.length, CQ_REPLY_SIZE)
             q2 == [q1 EXCEPT !.reply =
                       r.copied \o Drop(@, Len(r.copied))]
         IN  IF ReplyTooShort(r.res)
             THEN [q |-> q2, res |-> r.res, ret |-> 0 - EIO,
                   log |-> "failed_res"]
             ELSE IF StatusBad(q2)
             THEN [q |-> q2, res |-> r.res, ret |-> 0 - EIO,
                   log |-> "failed_status"]
             ELSE [q |-> q2, res |-> r.res, ret |-> r.res, log |-> "none"]

\* cq_exec(&mn_bridge->cq) called on the batch emitted so far
CqExec ==
    /\ cq.p # NullOffset
    /\ ~exec.done
    /\ exec.n < MaxExec
    /\ \E o \in IccOutcomes :
          LET r == cq_exec(cq, o)
          IN  /\ cq' = r.q
              /\ exec' = [done |-> TRUE, res |-> r.res, ret |-> r.ret,
                          log |-> r.log, n |-> exec.n + 1, o |-> o]
    /\ UNCHANGED << iccVars, emitted, opened, detect, probe, ioc, br, ctl >>

\* (faulty variant: any executed batch will do)
DetectTooShort_Failed(res) == res < 0

\* if (cq_exec(&mn_bridge->cq) < 9)
DetectTooShort(res) == res < 9

\* ps4_bridge_detect, lines 703-719, under mn_bridge->mutex: one read of
\* TMONREG; connected when the batch gave 9 bytes or more and the HPD bit
\* of reply.databuf[3] is set
Detect ==
    /\ exec.n < MaxExec
    /\ \E o \in IccOutcomes :
          LET q == cq_read(cq_init(cq, 4), TMONREG, 1)
              r == cq_exec(q, o)
              reg == ReplyByte(r.q, CQ_DATABUF + 3)
          IN  /\ cq' = r.q
              /\ exec' = [done |-> TRUE, res |-> r.res, ret |-> r.ret,
                          log |-> r.log, n |-> exec.n + 1, o |-> o]
              /\ detect' = IF DetectTooShort(r.ret) THEN "disconnected"
                            ELSE IF HasBit(reg, TMONREG_HPD) THEN "connected"
                            ELSE "disconnected"
    /\ emitted' = << [op |-> CMD_READ, x |-> << TMONREG, 1 >>] >>
    /\ opened' = << 0 >>
    /\ UNCHANGED << iccVars, probe, ioc, br, ctl >>

Emitters ==
    \/ EmitRead \/ EmitWriteReg \/ EmitMask
    \/ EmitDelay \/ EmitWaitSet \/ EmitWaitClear

NextCq == CqInit \/ Emitters

\* the command queue under every short sequence of emitter calls and under
\* long runs of one call
InitCq == Init /\ ~bpcie_initialized

SpecCq == InitCq /\ [][NextCq]_vars

NextExec == CqInit \/ EmitRead \/ EmitWriteReg \/ CqExec \/ Detect

\* batches of reads and register writes, executed against every outcome of
\* the transport call, and hot-plug detection
SpecExec == InitCq /\ [][NextExec]_vars

(***************************************************************************)
(* C16: one group per run of emitters.                                     *)
(***************************************************************************)
\* where the maximal runs of consecutive emitter calls with the same opcode
\* pair start
RunStarts(calls) ==
    { i \in DOMAIN calls : i = 1 \/ calls[i].op # calls[i - 1].op }

\* the k-th smallest element of the set of numbers S
Nth(S, k) == CHOOSE x \in S : Cardinality({ y \in S : y <= x }) = k

\* the last call of the run that starts at i
RunEnd(calls, i) ==
    CHOOSE j \in i..Len(calls) :
        /\ \A k \in i..j : calls[k].op = calls[i].op
        /\ j = Len(calls) \/ calls[j + 1].op # calls[i].op

\* C16: for every sequence of emitter calls on a freshly initialised queue
\* the number of command groups equals the number of maximal runs of
\* consecutive emitters with the same (major, minor) pair, and each group's
\* repeat count equals the length of its run
C16_GroupPerRun ==
    cq.p # NullOffset =>
        LET starts == RunStarts(emitted)
        IN  /\ cq.count = Cardinality(starts)
            /\ Len(opened) = Cardinality(starts)
            /\ \A k \in DOMAIN opened :
                  LET i == Nth(starts, k)
                  IN  /\ HdrMajor(cq, opened[k]) = emitted[i].op[1]
                      /\ HdrMinor(cq, opened[k]) = emitted[i].op[2]
                      /\ HdrCount(cq, opened[k]) =
                            RunEnd(emitted, i) - i + 1

\* three consecutive write_reg calls in one group with repeat count 3
C16_ThreeWrites ==
    /\ Len(emitted) = 3
    /\ \A i \in 1..3 : emitted[i].op = CMD_WRITE
    /\ emitted[1] # emitted[2] /\ emitted[2] # emitted[3]
    /\ cq.count = 1 /\ opened = << 0 >> /\ HdrCount(cq, 0) = 3

\* write_reg, read, write_reg in three groups
C16_ThreeGroups ==
    /\ Len(emitted) = 3
    /\ emitted[1].op = CMD_WRITE /\ emitted[2].op = CMD_READ
    /\ emitted[3].op = CMD_WRITE
    /\ cq.count = 3 /\ Len(opened) = 3
    /\ \A i \in 1..3 : HdrCount(cq, opened[i]) = 1

\* 256 consecutive write_reg calls: one group whose repeat count reads 0
C16_Wrapped ==
    /\ Len(emitted) = U8Mod
    /\ \A i \in DOMAIN emitted : emitted[i].op = CMD_WRITE
    /\ cq.count = 1 /\ opened = << 0 >> /\ HdrCount(cq, 0) = 0

\* what holds of the code: the same as long as no run is longer than 255
\* calls, the largest value of the u8 count field
C16_ShortRuns ==
    (\A i \in RunStarts(emitted) : RunEnd(emitted, i) - i + 1 < U8Mod)
        => C16_GroupPerRun

(***************************************************************************)
(* C17: what cq_exec returns.                                              *)
(***************************************************************************)
\* cq_exec has run on a batch of at least one emitter call
Executed == exec.done /\ emitted # <<>>

\* the transport call failed, or its reply payload has fewer than 5 bytes
ExecIoFailure == exec.o.err < 0 \/ Len(exec.o.data) < 5

\* one of the two status bytes that begin the reply payload is not zero
ExecRejected == exec.o.data[1] # 0 \/ exec.o.data[2] # 0

\* C17: cq_exec on a non-empty batch returns an I/O failure (-EIO, logged
\* with the transport's result) whenever the transport call fails or the
\* reply is shorter than 5 bytes, a device-rejected error (-EIO, logged with
\* the two status bytes) whenever either reply status byte is nonzero, and
\* otherwise the reply length reported by the transport
C17_ExecResult ==
    Executed =>
        IF ExecIoFailure
        THEN exec.ret = 0 - EIO /\ exec.log = "failed_res"
        ELSE IF ExecRejected
        THEN exec.ret = 0 - EIO /\ exec.log = "failed_status"
        ELSE exec.ret = Len(exec.o.data) /\ exec.log = "none"

\* a reply of five bytes whose second status byte is 2, rejected
C17_Witness ==
    /\ Executed /\ Len(emitted) > 1
    /\ exec.o = [err |-> 0, data |-> << 0, 2, 0, 0, 1 >>]
    /\ exec.ret = 0 - EIO /\ exec.log = "failed_status"

\* a five-byte reply with both status bytes zero: its length is returned
C17_WitnessLength ==
    /\ Executed
    /\ exec.o = [err |-> 0, data |-> << 0, 0, 0, 0, 1 >>]
    /\ exec.ret = 5

(***************************************************************************)
(* C18: hot-plug detection.                                                *)
(***************************************************************************)
\* ps4_bridge_detect has returned, its batch the single read of TMONREG
Detected ==
    /\ detect # "none" /\ exec.done
    /\ emitted = << [op |-> CMD_READ, x |-> << TMONREG, 1 >>] >>

\* the transport call gave nine bytes or more, both status bytes zero, and
\* bit 3 of the ninth byte (reply.databuf[3]) is set
HpdHighReply ==
    /\ exec.o.err = 0
    /\ Len(exec.o.data) >= 9
    /\ exec.o.data[1] = 0 /\ exec.o.data[2] = 0
    /\ (exec.o.data[9] \div 8) % 2 = 1

\* C18 as stated: the batch read(0x7008, 1) executed against a device whose
\* reply payload is [0x00, 0x00, 0x00, 0x08] makes hot-plug detection
\* report the HPD-high (connected) state
C18_Original ==
    Detected /\ exec.o = [err |-> 0, data |-> << 0, 0, 0, 8 >>] =>
        detect = "connected"

\* C18, amended: the batch read(0x7008, 1) makes hot-plug detection report
\* connected exactly when the transport call succeeds with a reply payload
\* of at least 9 bytes whose two status bytes are zero and whose byte 8
\* (reply.databuf[3]) has bit 3 set; against the reply payload
\* [0x00, 0x00, 0x00, 0x08], shorter than 5 bytes, cq_exec fails with -EIO
\* and detection reports disconnected
C18_DetectNeedsNineBytes ==
    Detected =>
        /\ detect = "connected" <=> HpdHighReply
        /\ detect \in {"connected", "disconnected"}
        /\ exec.o = [err |-> 0, data |-> << 0, 0, 0, 8 >>] =>
              exec.ret = 0 - EIO /\ detect = "disconnected"

\* the reply payload of the claim met, and detection reporting disconnected
C18_Witness ==
    /\ Detected
    /\ exec.o = [err |-> 0, data |-> << 0, 0, 0, 8 >>]
    /\ exec.ret = 0 - EIO /\ detect = "disconnected"

\* a nine-byte reply with 0x08 as its last byte: connected
C18_WitnessConnected ==
    /\ Detected
    /\ exec.o = [err |-> 0, data |-> << 0, 0, 0, 0, 1, 0, 0, 0, 8 >>]
    /\ exec.ret = 9 /\ detect = "connected"

(***************************************************************************)
(* apcie_icc_init: bring-up of the mailbox.                                *)
(***************************************************************************)
\* the state before apcie_icc_init: nothing acquired, icc_sc NULL (static),
\* the interrupts masked; the request slot is as the remote left it
InitProbe ==
    /\ bpcie_initialized = FALSE
    /\ icc_sc = FALSE
    /\ icc_mutex = NoThread
    /\ icc = [request |-> ZeroHdr, reply |-> ZeroHdr,
              reply_pending |-> FALSE, reply_buffer |-> NULL,
              reply_length |-> 0, reply_extra_checksum |-> 0]
    /\ \E e \in {0, 1}, f \in {0, 1} :
          spm = [req |-> [IdleSlot EXCEPT !.empty = e, !.full = f],
                 rep |-> IdleReplySlot]
    /\ \E st \in SUBSET {APCIE_ICC_SEND, APCIE_ICC_ACK} :
          regs = [status |-> st, doorbell |-> {}, irq_mask |-> {}]
    /\ pc = [t \in Threads |-> "idle"]
    /\ args = [t \in Threads |-> NoArgs]
    /\ ret = [t \in Threads |-> 0]
    /\ err = [t \in Threads |-> "none"]
    /\ wret = [t \in Threads |-> 0]
    /\ buf = [t \in Threads |-> <<>>]
    /\ serial = [t \in Threads |-> 0]
    /\ irq = IrqIdle
    /\ ncalls = 0 /\ nlocked = 0 /\ nframes = 0
    /\ seen = {} /\ accepted = <<>> /\ drops = {} /\ prev = "none"
    /\ cq = ZeroQueue /\ emitted = <<>> /\ opened = <<>>
    /\ exec = NoExec /\ detect = "none"
    /\ probe = [pc |-> "get_slot", ret |-> 0, took |-> <<>>, gave |-> <<>>]
    /\ ioc = IoctlIdle
    /\ br = BridgeIdle
    /\ ctl = CtlIdle

\* what the state of the mailbox transport keeps of a step of bring-up
ProbeFrame ==
    UNCHANGED << bpcie_initialized, icc, spm, callerVars, buf, irq, ncalls,
                 nlocked, nframes, seen, ghostVars, cq, emitted, opened,
                 exec, detect, ioc, br, ctl >>

\* the step acquires resource r and goes on to position next
Acquire(r, next) ==
    probe' = [probe EXCEPT !.took = Append(@, r), !.pc = next]

\* the step fails with ret = e and goes on to position next
Fail(e, next) == probe' = [probe EXCEPT !.ret = e, !.pc = next]

\* the step releases resource r and goes on to position next
Release(r, next) ==
    probe' = [probe EXCEPT !.gave = Append(@, r), !.pc = next]

\* lines 456-460: mem_dev = pci_get_slot(...), which takes a reference on
\* the device it returns; NULL gives -ENODEV
GetSlot ==
    /\ probe.pc = "get_slot"
    /\ \/ Acquire("mem_dev", "request_icc")
       \/ Fail(0 - ENODEV, "failed")
    /\ ProbeFrame /\ UNCHANGED << icc_sc, icc_mutex, regs >>

\* lines 462-467: request_mem_region of the ICC registers; on failure
\* return -EBUSY
RequestIccRegion ==
    /\ probe.pc = "request_icc"
    /\ \/ Acquire("icc_region", "request_spm")
       \/ Fail(0 - EBUSY, "failed")
    /\ ProbeFrame /\ UNCHANGED << icc_sc, icc_mutex, regs >>

\* lines 469-475: request_mem_region of the SPM segment; on failure
\* ret = -EBUSY; goto release_icc
RequestSpmRegion ==
    /\ probe.pc = "request_spm"
    /\ \/ Acquire("spm_region", "ioremap")
       \/ Fail(0 - EBUSY, "release_icc")
    /\ ProbeFrame /\ UNCHANGED << icc_sc, icc_mutex, regs >>

\* lines 477-482: ioremap; on failure ret = -EIO; goto release_spm
Ioremap ==
    /\ probe.pc = "ioremap"
    /\ \/ Acquire("spm_map", "request_irq")
       \/ Fail(0 - EIO, "release_spm")
    /\ ProbeFrame /\ UNCHANGED << icc_sc, icc_mutex, regs >>

\* lines 484-496: clear both flags in STATUS, then request_irq; on failure
\* goto iounmap with the errno request_irq gave
RequestIrq ==
    /\ probe.pc = "request_irq"
    /\ regs' = [regs EXCEPT !.status = {}]
    /\ \/ Acquire("irq", "check_slot")
       \/ Fail(0 - EBUSY, "iounmap")
    /\ ProbeFrame /\ UNCHANGED << icc_sc, icc_mutex >>

\* lines 498-506: the request slot must be idle, else ret = -EIO;
\* goto free_irq
ProbeCheckSlot ==
    /\ probe.pc = "check_slot"
    /\ IF SlotIdle(spm.req.empty, spm.req.full)
       THEN probe' = [probe EXCEPT !.pc = "assign_global"]
       ELSE Fail(0 - EIO, "free_irq")
    /\ ProbeFrame /\ UNCHANGED << icc_sc, icc_mutex, regs >>

\* lines 508-514, under icc_mutex: icc_sc = sc; enable both interrupts
AssignGlobal ==
    /\ probe.pc = "assign_global"
    /\ MutexAvailable
    /\ icc_sc' = TRUE
    /\ regs' = [regs EXCEPT !.irq_mask = {APCIE_ICC_SEND, APCIE_ICC_ACK}]
    /\ probe' = [probe EXCEPT !.pc = "i2c_init"]
    /\ ProbeFrame /\ UNCHANGED icc_mutex

\* lines 516-520: ret = icc_i2c_init(sc); on failure goto unassign_global
I2cInit ==
    /\ probe.pc = "i2c_init"
    /\ \/ probe' = [probe EXCEPT !.pc = "finish"]
       \/ Fail(0 - EIO, "unassign_global")
    /\ ProbeFrame /\ UNCHANGED << icc_sc, icc_mutex, regs >>

\* lines 522-545: power button (not fatal), scratch buffer and character
\* device (a failure of either goes to done); return 0
Finish ==
    /\ probe.pc = "finish"
    /\ probe' = [probe EXCEPT !.pc = "done", !.ret = 0]
    /\ ProbeFrame /\ UNCHANGED << icc_sc, icc_mutex, regs >>

\* lines 547-551, under icc_mutex: mask the interrupts, icc_sc = NULL
UnassignGlobal ==
    /\ probe.pc = "unassign_global"
    /\ MutexAvailable
    /\ regs' = [regs EXCEPT !.irq_mask = {}]
    /\ icc_sc' = FALSE
    /\ probe' = [probe EXCEPT !.pc = "free_irq"]
    /\ ProbeFrame /\ UNCHANGED icc_mutex

\* lines 552-553: free_irq
FreeIrq ==
    /\ probe.pc = "free_irq"
    /\ Release("irq", "iounmap")
    /\ ProbeFrame /\ UNCHANGED << icc_sc, icc_mutex, regs >>

\* lines 554-555: iounmap(sc->icc.spm)
Iounmap ==
    /\ probe.pc = "iounmap"
    /\ Release("spm_map", "release_spm")
    /\ ProbeFrame /\ UNCHANGED << icc_sc, icc_mutex, regs >>

\* lines 556-557: release_mem_region of the SPM segment
ReleaseSpm ==
    /\ probe.pc = "release_spm"
    /\ Release("spm_region", "release_icc")
    /\ ProbeFrame /\ UNCHANGED << icc_sc, icc_mutex, regs >>

\* lines 558-561: release_mem_region of the ICC registers; return ret
ReleaseIcc ==
    /\ probe.pc = "release_icc"
    /\ Release("icc_region", "failed")
    /\ ProbeFrame /\ UNCHANGED << icc_sc, icc_mutex, regs >>

NextProbe ==
    \/ GetSlot \/ RequestIccRegion \/ RequestSpmRegion \/ Ioremap
    \/ RequestIrq \/ ProbeCheckSlot \/ AssignGlobal \/ I2cInit \/ Finish
    \/ UnassignGlobal \/ FreeIrq \/ Iounmap \/ ReleaseSpm \/ ReleaseIcc

\* bring-up with every acquisition step free to fail
SpecProbe == InitProbe /\ [][NextProbe]_vars

(***************************************************************************)
(* C19: a failed bring-up gives back what it took.                         *)
(***************************************************************************)
\* apcie_icc_init has returned after the failure of one of the steps from
\* the reservation of the register region to i2c init
ProbeFailed == probe.pc = "failed" /\ probe.took # <<>>

\* C19: when an acquisition step of bring-up fails (register region, SPM
\* region, mapping, IRQ registration, request-slot idle check, i2c init)
\* apcie_icc_init returns an error and, on return, every resource acquired
\* earlier in the call has been released in the reverse order of
\* acquisition, the IRQ mask is disabled and icc_sc is unset
C19_FailedInitUnwinds ==
    ProbeFailed =>
        /\ probe.ret < 0
        /\ probe.gave = Reverse(probe.took)
        /\ regs.irq_mask = {}
        /\ ~icc_sc

\* what holds of the code: the same of every resource but the reference on
\* the memory function's device, which pci_get_slot took first and which
\* no path gives back
C19_RegionsUnwound ==
    ProbeFailed =>
        /\ probe.ret < 0
        /\ probe.took[1] = "mem_dev"
        /\ probe.gave = Reverse(Tail(probe.took))
        /\ regs.irq_mask = {}
        /\ ~icc_sc

\* i2c init failed after the interrupts were enabled and icc_sc set: the
\* IRQ, the mapping and both regions released in that order
C19_UnwoundAfterI2c ==
    /\ ProbeFailed
    /\ Len(probe.took) = 5
    /\ probe.gave = << "irq", "spm_map", "spm_region", "icc_region" >>
    /\ regs.irq_mask = {} /\ ~icc_sc

\* the reservation of the register region failed: the call has returned
\* -EBUSY holding the reference on the memory function's device
C19_HandleKept ==
    /\ ProbeFailed
    /\ probe.ret = 0 - EBUSY
    /\ probe.took = << "mem_dev" >> /\ probe.gave = <<>>

(***************************************************************************)
(* icc_ioctl: the control operation of the character device.               *)
(***************************************************************************)
\* kzalloc(1 << 16, GFP_KERNEL): the size of ioctl_tmp_buf
IOCTL_TMP_SIZE == 65536

\* lengths a user may mean to pass in struct icc_cmd
UserLengths ==
    {0, 1, ICC_MAX_PAYLOAD, ICC_MAX_PAYLOAD + 1, U16Mod - 1, U16Mod,
     U16Mod + ICC_MAX_PAYLOAD + 1}

\* (faulty variant: length fields wide enough for every value)
FieldOf_Wide(v) == v

\* what a length field of struct icc_cmd holds of v: the fields are as wide
\* as the u16 length and reply_length parameters of apcie_icc_cmd
FieldOf(v) == v % U16Mod

\* line 411: copy_from_user(&cmd, uap, sizeof(cmd)), which may fault
IoctlEnter ==
    /\ ioc.pc = "idle"
    /\ \/ \E l \in UserLengths, r \in UserLengths :
             ioc' = [pc |-> "copy_in", length |-> FieldOf(l),
                     reply_length |-> FieldOf(r), ret |-> 0,
                     copies |-> <<>>]
       \/ ioc' = [IoctlIdle EXCEPT !.pc = "return", !.ret = 0 - EFAULT]
    /\ UNCHANGED << iccVars, cq, emitted, opened, exec, detect, probe, br,
                    ctl >>

\* lines 434-436: any other command: -ENOENT
IoctlOther ==
    /\ ioc.pc = "idle"
    /\ ioc' = [IoctlIdle EXCEPT !.pc = "return", !.ret = 0 - ENOENT]
    /\ UNCHANGED << iccVars, cq, emitted, opened, exec, detect, probe, br,
                    ctl >>

\* line 416: copy_from_user(ioctl_tmp_buf, cmd.data, cmd.length), which may
\* fault after having written some of the bytes
IoctlCopyIn ==
    /\ ioc.pc = "copy_in"
    /\ \/ ioc' = [ioc EXCEPT !.copies = Append(@, ioc.length),
                             !.pc = "cmd"]
       \/ ioc' = [ioc EXCEPT !.copies = Append(@, ioc.length),
                             !.ret = 0 - EFAULT, !.pc = "return"]
    /\ UNCHANGED << iccVars, cq, emitted, opened, exec, detect, probe, br,
                    ctl >>

\* lines 421-426: apcie_icc_cmd(major, minor, ioctl_tmp_buf, cmd.length,
\* ioctl_tmp_buf, cmd.reply_length), which copies the reply into the buffer
IoctlCmd ==
    /\ ioc.pc = "cmd"
    /\ \E o \in IccOutcomes :
          LET r == IccCmdOf(o, ioc.length, ioc.reply_length)
          IN  ioc' = [ioc EXCEPT
                        !.copies = Append(@, Len(r.copied)),
                        !.ret = r.res,
                        !.pc = IF r.res < 0 THEN "return" ELSE "copy_out"]
    /\ UNCHANGED << iccVars, cq, emitted, opened, exec, detect, probe, br,
                    ctl >>

\* lines 427-432: copy_to_user(cmd.reply, ioctl_tmp_buf, cmd.reply_length),
\* which may fault; ret = reply_len
IoctlCopyOut ==
    /\ ioc.pc = "copy_out"
    /\ \/ ioc' = [ioc EXCEPT !.copies = Append(@, ioc.reply_length),
                             !.pc = "return"]
       \/ ioc' = [ioc EXCEPT !.copies = Append(@, ioc.reply_length),
                             !.ret = 0 - EFAULT, !.pc = "return"]
    /\ UNCHANGED << iccVars, cq, emitted, opened, exec, detect, probe, br,
                    ctl >>

\* line 438: return ret
IoctlReturn ==
    /\ ioc.pc = "return"
    /\ ioc' = IoctlIdle
    /\ UNCHANGED << iccVars, cq, emitted, opened, exec, detect, probe, br,
                    ctl >>

NextIoctl ==
    \/ IoctlEnter \/ IoctlOther \/ IoctlCopyIn \/ IoctlCmd
    \/ IoctlCopyOut \/ IoctlReturn

\* calls of the control operation, one at a time
SpecIoctl == InitCq /\ [][NextIoctl]_vars

C20_WitnessCopyOut ==
    /\ ioc.pc = "return"
    /\ ioc.reply_length = U16Mod - 1
    /\ ioc.copies = << 1, 9, U16Mod - 1 >>
    /\ ioc.ret = 9

(***************************************************************************)
(* The bridge operations and g_bridge.mutex.                               *)
(***************************************************************************)
\* bound of the model: calls of bridge operations
MaxBridge == 2

TSRST       == 28678
AKESTA      == 31364
AKESTA_BUSY == 1
AKESRST     == 31368
VMUTECNT    == 28767
INFENA      == 29187

\* ps4_bridge_pre_enable, ps4_bridge_enable on a CUH-11XX and on the other
\* devices, ps4_bridge_disable, ps4_bridge_detect
BridgeOps == {"pre_enable", "enable_11xx", "enable_other", "disable",
              "detect"}

\* the batches (cq_init ... cq_exec) an operation runs under the mutex
Batches(op) ==
    CASE op = "enable_11xx"  -> 4
      [] op = "enable_other" -> 3
      [] OTHER               -> 1

\* the queue after the emitter calls of batch k (from 1) of the operation;
\* of the long register sequences of ps4_bridge_enable the batch keeps the
\* calls that open it
BatchEmit(op, k, q) ==
    CASE op = "pre_enable" ->
            cq_wait_clear(
                cq_writereg(
                    cq_writereg(
                        cq_writereg(cq_writereg(q, INFENA, 0), TSRST, 18),
                        TSRST, 5),
                    AKESRST, 255),
                AKESTA, AKESTA_BUSY)
      [] op = "disable" ->
            cq_writereg(cq_writereg(q, VMUTECNT, 18), INFENA, 0)
      [] op = "detect" -> cq_read(q, TMONREG, 1)
      [] op = "enable_11xx" /\ k = 1 -> cq_read(q, 30433, 3)
      [] op = "enable_11xx" /\ k = 2 ->
            cq_wait_set(cq_wait_set(q, 30238, 119), 30239, 119)
      [] op = "enable_11xx" /\ k = 3 ->
            cq_writereg(cq_writereg(q, 28851, 0), 28855, 11)
      [] op = "enable_11xx" /\ k = 4 ->
            cq_mask(cq_writereg(q, 32472, 1), 28852, 0, 62)
      [] op = "enable_other" /\ k = 1 ->
            cq_writereg(cq_mask(q, 24581, 1, 1), 27139, 71)
      [] op = "enable_other" /\ k = 2 ->
            cq_writereg(cq_writereg(q, 28842, 0), 28847, 7)
      [] OTHER -> cq_mask(cq_writereg(q, 28848, 1), 28848, 0, 255)

\* (faulty variant: mutex_lock never waits)
BridgeMutexFree_Always == TRUE

\* mutex_lock(&mn_bridge->mutex) can return
BridgeMutexFree == br.mutex = NoThread

\* the caller moves to position p
BrGoto(t, p) == [br EXCEPT !.pc[t] = p]

\* what the bridge operations leave alone
BridgeFrame ==
    UNCHANGED << iccVars, emitted, opened, exec, detect, probe, ioc,
                 ctl >>

\* a call of a bridge operation; ps4_bridge_enable returns at once when no
\* mode is set or the vendor is not ATI (lines 374-382)
BrCall(t) ==
    /\ br.pc[t] = "idle"
    /\ br.n < MaxBridge
    /\ \/ \E op \in BridgeOps :
             br' = [br EXCEPT !.pc[t] = "lock", !.op[t] = op,
                              !.left[t] = Batches(op), !.res[t] = 0,
                              !.reg[t] = 0, !.n = @ + 1]
       \/ br' = [br EXCEPT !.pc[t] = "idle", !.op[t] = "enable_refused",
                           !.left[t] = 0, !.res[t] = 0, !.reg[t] = 0,
                           !.n = @ + 1]
    /\ UNCHANGED cq
    /\ BridgeFrame

\* mutex_lock(&mn_bridge->mutex)
BrLock(t) ==
    /\ br.pc[t] = "lock"
    /\ BridgeMutexFree
    /\ br' = [br EXCEPT !.mutex = t, !.pc[t] = "init"]
    /\ UNCHANGED cq
    /\ BridgeFrame

\* cq_init(&mn_bridge->cq, 4)
BrInit(t) ==
    /\ br.pc[t] = "init"
    /\ cq' = cq_init(cq, 4)
    /\ br' = BrGoto(t, "emit")
    /\ BridgeFrame

\* the emitter calls of the batch
BrEmit(t) ==
    /\ br.pc[t] = "emit"
    /\ cq.p # NullOffset
    /\ cq' = BatchEmit(br.op[t], Batches(br.op[t]) - br.left[t] + 1, cq)
    /\ br' = BrGoto(t, "exec")
    /\ BridgeFrame

\* cq_exec(&mn_bridge->cq), which reads reply.res1 and reply.res2, and the
\* test of its value: < 9 in ps4_bridge_detect (line 706), < 11 after the
\* first batch of ps4_bridge_enable on a CUH-11XX (line 396), which both
\* read reply.databuf next; the other batches only log a failure
BrExec(t) ==
    /\ br.pc[t] = "exec"
    /\ cq.p # NullOffset
    /\ \E o \in IccOutcomes :
          LET r == cq_exec(cq, o)
              first == br.left[t] = Batches(br.op[t])
              reads == \/ br.op[t] = "detect" /\ ~DetectTooShort(r.ret)
                       \/ br.op[t] = "enable_11xx" /\ first /\ ~(r.ret < 11)
              fails == \/ br.op[t] = "detect" /\ DetectTooShort(r.ret)
                       \/ br.op[t] = "enable_11xx" /\ first /\ r.ret < 11
          IN  /\ cq' = r.q
              /\ br' = [br EXCEPT
                          !.res[t] = r.ret,
                          !.left[t] = IF fails THEN 0 ELSE @ - 1,
                          !.pc[t] = IF reads THEN "read"
                                    ELSE IF fails \/ br.left[t] = 1
                                    THEN "unlock" ELSE "init"]
    /\ BridgeFrame

\* reg = mn_bridge->cq.reply.databuf[3] (line 711);
\* memcpy(dp, &mn_bridge->cq.reply.databuf[3], 3) (line 401)
BrRead(t) ==
    /\ br.pc[t] = "read"
    /\ br' = [br EXCEPT !.reg[t] = ReplyByte(cq, CQ_DATABUF + 3),
                        !.pc[t] = IF br.left[t] = 0 THEN "unlock"
                                  ELSE "init"]
    /\ UNCHANGED cq
    /\ BridgeFrame

\* mutex_unlock(&mn_bridge->mutex) and the return
BrUnlock(t) ==
    /\ br.pc[t] = "unlock"
    /\ br' = [br EXCEPT !.mutex = NoThread, !.pc[t] = "idle"]
    /\ UNCHANGED cq
    /\ BridgeFrame

Bridge(t) ==
    \/ BrCall(t) \/ BrLock(t) \/ BrInit(t) \/ BrEmit(t)
    \/ BrExec(t) \/ BrRead(t) \/ BrUnlock(t)

NextBridge == \E t \in Threads : Bridge(t)

\* concurrent calls of the bridge operations
SpecBridge == InitCq /\ [][NextBridge]_vars

(***************************************************************************)
(* C21: one owner of the command queue per batch.                          *)
(***************************************************************************)
\* the caller is between its first cq_init and its last read of the reply
InBatch(t) ==
    \/ br.pc[t] \in {"emit", "exec", "read"}
    \/ br.pc[t] = "init" /\ br.left[t] < Batches(br.op[t])

\* C21: across concurrent pre_enable, enable, disable and detect calls no
\* two threads are between queue initialisation and the last read of the
\* reply buffer at the same time, and the bridge lock is released on every
\* return path: a caller that is in no operation does not hold it
C21_QueueOwnedByOne ==
    /\ \A t, u \in Threads : InBatch(t) /\ InBatch(u) => t = u
    /\ \A t \in Threads : InBatch(t) => br.mutex = t
    /\ \A t \in Threads : br.pc[t] \in {"idle", "lock"} => br.mutex # t

\* one caller is in its batch, having read the reply of a detect, while
\* the other waits for the lock
C21_Witness ==
    /\ br.pc["t1"] = "unlock" /\ br.op["t1"] = "detect"
    /\ br.res["t1"] = 9 /\ br.reg["t1"] = 8
    /\ br.mutex = "t1"
    /\ br.pc["t2"] = "lock"

\* the lock is free again after the failure return of ps4_bridge_enable
\* (line 397) and the other caller has taken it
C21_WitnessFailure ==
    /\ br.pc["t1"] = "idle" /\ br.op["t1"] = "enable_11xx"
    /\ br.res["t1"] < 11 /\ br.left["t1"] = 0
    /\ br.mutex = "t2" /\ InBatch("t2")

(***************************************************************************)
(* C22: the order of the steps that post a request.                        *)
(***************************************************************************)
\* the request slot holds the header and the payload of the request of t
SlotWritten(t) ==
    /\ spm.req.hdr = icc.request /\ spm.req.g_hdr = serial[t]
    /\ spm.req.data = PaddedData(args[t].data) /\ spm.req.g_data = serial[t]

\* the reactor is handling the well-formed reply to a request the remote
\* took after its doorbell was rung
AnswerStep ==
    /\ irq.pc = "send" /\ APCIE_ICC_SEND \in irq.status /\ irq'.pc = "read"
    /\ ReplySlotReady(spm.rep.empty, spm.rep.full)
    /\ ~HasBit(spm.rep.hdr.minor, ICC_EVENT)
    /\ HasBit(spm.rep.hdr.minor, ICC_REPLY)
    /\ spm.rep.hdr.magic = ICC_MAGIC
    /\ \E r \in seen : /\ r.serial = spm.rep.g_for
                       /\ r.cookie = spm.rep.hdr.cookie

\* C22 as stated: after the idle check the slot is marked non-empty, header
\* and payload are copied, the slot is marked full, the pending flag is
\* set, the doorbell is rung, and a reply produced in response to the
\* doorbell is never seen by the reactor as unexpected
C22_Original ==
    [][AnswerStep => irq'.log # "unexpected_reply"]_vars

\* C22: in every request that passes the idle check the slot is marked
\* non-empty before header and payload are copied, marked full after them,
\* the pending flag is set next and the doorbell is rung last, so when the
\* doorbell is rung the slot is full and the flag has been set; the flag
\* stays set until the reactor accepts a frame with the request's cookie or
\* the sender stops waiting, the time in which no reply is seen as
\* unexpected
C22_PostingOrder ==
    \A t \in Threads :
        /\ pc[t] = "w_empty" =>
              /\ spm.req.empty = 1 /\ spm.req.full = 0
              /\ APCIE_ICC_SEND \notin regs.doorbell
        /\ pc[t] \in {"w_hdr", "w_data"} =>
              /\ spm.req.empty = 0 /\ spm.req.full = 0
              /\ ~icc.reply_pending
              /\ APCIE_ICC_SEND \notin regs.doorbell
        /\ pc[t] = "w_full" =>
              /\ spm.req.empty = 0 /\ spm.req.full = 0 /\ SlotWritten(t)
              /\ ~icc.reply_pending
              /\ APCIE_ICC_SEND \notin regs.doorbell
        /\ pc[t] = "pend" =>
              /\ spm.req.empty = 0 /\ spm.req.full = 1 /\ SlotWritten(t)
              /\ ~icc.reply_pending
              /\ APCIE_ICC_SEND \notin regs.doorbell
        /\ pc[t] = "bell" =>
              /\ spm.req.empty = 0 /\ spm.req.full = 1 /\ SlotWritten(t)
              /\ icc.reply_pending \/ accepted # <<>>
              /\ APCIE_ICC_SEND \notin regs.doorbell
        /\ pc[t] = "wait" /\ accepted = <<>> => icc.reply_pending

\* the doorbell rung for a posted request: slot full, flag set, the remote
\* has not yet taken the request
C22_Witness ==
    \E t \in Threads :
        /\ pc[t] = "wait" /\ APCIE_ICC_SEND \in regs.doorbell
        /\ spm.req.full = 1 /\ spm.req.empty = 0 /\ SlotWritten(t)
        /\ icc.reply_pending /\ accepted = <<>>

\* the reply to the request was accepted while its sender waited
C22_WitnessAnswered ==
    \E t \in Threads :
        /\ pc[t] = "wait" /\ ~icc.reply_pending
        /\ accepted # <<>> /\ accepted[1].g_for = serial[t]
        /\ irq.log = "accepted"

(***************************************************************************)
(* C23: frames with the EVENT flag never take the reply path.              *)
(***************************************************************************)
EventLogs ==
    {"pwrbutton_1", "pwrbutton_0", "event_unsupported", "event_bad_magic"}

\* the reactor is handling a frame whose minor has the EVENT flag
EventStep ==
    /\ irq.pc = "send" /\ APCIE_ICC_SEND \in irq.status /\ irq'.pc = "read"
    /\ ReplySlotReady(spm.rep.empty, spm.rep.full)
    /\ HasBit(spm.rep.hdr.minor, ICC_EVENT)

\* the key of the frame in the reply slot
EventKey == spm.rep.hdr.major * 65536 + spm.rep.hdr.minor

\* C23: a frame whose minor has the EVENT flag goes to the event dispatcher
\* after its event magic is validated and never to the reply path: with or
\* without a request pending it leaves the pending flag, the saved reply,
\* the extra checksum (all of icc) and the caller's buffer unchanged and
\* does not end the sender's wait; an event key without a handler is logged
\* and has no other effect
C23_EventNeverReply ==
    [][EventStep =>
          /\ irq'.log \in EventLogs
          /\ irq'.log = "event_bad_magic" <=>
                spm.rep.hdr.magic # ICC_EVENT_MAGIC
          /\ irq'.log = "pwrbutton_1" => EventKey = 8 * 65536 + 32784
          /\ irq'.log = "pwrbutton_0" => EventKey = 8 * 65536 + 32785
          /\ icc' = icc
          /\ buf' = buf
          /\ accepted' = accepted
          /\ \A t \in Threads :
                ENABLED WaitDone(t) <=> (ENABLED WaitDone(t))'
    ]_vars

\* an unsupported event handled while the sender waits for its reply
C23_Witness ==
    /\ irq.pc = "read" /\ irq.log = "event_unsupported"
    /\ icc.reply_pending /\ pc["t1"] = "wait"
    /\ accepted = <<>> /\ seen # {}

\* the power button release handled while the sender waits
C23_WitnessButton ==
    /\ irq.pc = "read" /\ irq.log = "pwrbutton_0"
    /\ icc.reply_pending /\ pc["t1"] = "wait"

(***************************************************************************)
(* C24: the length field of a closed group.                                *)
(***************************************************************************)
\* group k (in the order of opening) has been closed: another group was
\* opened after it, or cq_exec has run
GroupClosed(k) == k < Len(opened) \/ exec.done

\* the bytes from the start of the header of group k to the start of the
\* next group or, for the last group, to the write cursor
GroupBytes(k) ==
    (IF k < Len(opened) THEN opened[k + 1] ELSE cq.p) - opened[k]

\* C24: whenever a command group is closed, by an emitter with a different
\* opcode pair or by cq_exec, the length stored in its header equals the
\* number of bytes from the start of the group's header to the write
\* cursor, for every number of coalesced operations in the group; and on
\* cq_exec the request's total length equals the number of bytes from the
\* start of the request to the write cursor
C24_GroupLength ==
    cq.p # NullOffset =>
        /\ \A k \in DOMAIN opened :
              GroupClosed(k) => HdrLength(cq, opened[k]) = GroupBytes(k)
        /\ exec.done /\ cq.cmd # NullOffset =>
              cq.length = CQ_REQ_HDR + cq.p

\* what holds of the code: the same for every group shorter than 256 bytes,
\* the length field being a u8; a longer group's field holds its length
\* modulo 256
C24_ShortGroups ==
    cq.p # NullOffset =>
        /\ \A k \in DOMAIN opened :
              GroupClosed(k) =>
                 /\ HdrLength(cq, opened[k]) = GroupBytes(k) % U8Mod
                 /\ GroupBytes(k) < U8Mod =>
                       HdrLength(cq, opened[k]) = GroupBytes(k)
        /\ exec.done /\ cq.cmd # NullOffset =>
              cq.length = CQ_REQ_HDR + cq.p

\* a read closed by a write_reg, the write_reg closed by cq_exec
C24_TwoClosed ==
    /\ exec.done /\ Len(opened) = 2
    /\ emitted[1].op = CMD_READ /\ emitted[2].op = CMD_WRITE
    /\ HdrLength(cq, opened[1]) = 8 /\ HdrLength(cq, opened[2]) = 8
    /\ cq.length = 20

\* 63 coalesced write_reg calls closed by cq_exec: 256 bytes, length 0
C24_Wrapped ==
    /\ exec.done /\ opened = << 0 >> /\ Len(emitted) = 63
    /\ \A i \in DOMAIN emitted : emitted[i].op = CMD_WRITE
    /\ cq.p = U8Mod /\ HdrLength(cq, 0) = 0
    /\ cq.length = CQ_REQ_HDR + U8Mod

(***************************************************************************)
(* C25: termination of the interrupt reactor.                              *)
(***************************************************************************)
\* a bit of the STATUS register other than APCIE_ICC_ACK and APCIE_ICC_SEND
OtherStatusBit == 4

\* the device raises the other bit in STATUS; icc_interrupt writes only the
\* ACK and SEND bits back to the register, and the bit stays
RaiseOther ==
    /\ icc_sc
    /\ OtherStatusBit \notin regs.status
    /\ regs' = [regs EXCEPT !.status = @ \cup {OtherStatusBit}]
    /\ UNCHANGED << bpcie_initialized, icc_sc, icc_mutex, icc, spm,
                    callerVars, buf, irq, ncalls, nlocked, nframes, seen,
                    ghostVars >>
    /\ UNCHANGED extVars

NextIrq ==
    \/ SenderOne("t1")
    \/ Reactor
    \/ RemoteTake \/ RemoteSend \/ RemoteRaise \/ RaiseOther

\* the reactor against a STATUS register that can hold a third bit; a
\* running handler keeps taking steps
SpecIrq == Init /\ [][NextIrq]_vars /\ WF_vars(Reactor)

\* the handler leaves its loop
IrqReturnStep == irq.pc = "send" /\ irq'.pc = "idle"

\* C25: every invocation of the interrupt reactor terminates: it keeps
\* looping only while the status register shows the ACK or SEND pending
\* bits and returns once neither is set, whatever other bits the status
\* register holds
C25_ReactorTerminates ==
    /\ [][irq.pc = "send" /\ irq.status \cap IccBits = {} /\ irq' # irq
             => IrqReturnStep]_vars
    /\ (irq.pc # "idle") ~> (irq.pc = "idle")

\* what holds of the code: the handler returns when the value it read from
\* STATUS is zero, and only then
C25_LoopsOnAnyBit ==
    [][irq.pc = "send" /\ irq' # irq =>
          (IrqReturnStep <=> irq.status = {})]_vars

\* what holds of the code: an invocation that never reads a bit other than
\* ACK and SEND from STATUS terminates
C25_TerminatesOnIccBits ==
    (irq.pc # "idle") ~>
        (irq.pc = "idle" \/ OtherStatusBit \in irq.status)

\* the handler has read the other bit alone and goes round again
C25_Spinning ==
    /\ irq.pc = "read" /\ irq.status = {OtherStatusBit}
    /\ regs.status = {OtherStatusBit}
    /\ irq.ret = "IRQ_NONE"

(***************************************************************************)
(* C26: the cookie counts the requests built.                              *)
(***************************************************************************)
\* caller t makes the step of lines 183-198
BuildStep(t) == pc[t] = "build" /\ pc'[t] # "build"

\* C26: the cookie is incremented exactly once, modulo 2^16, by every
\* request that passes the payload-size check (also by one that then fails
\* because the slot is busy) and by nothing else; so two requests
\* transmitted one after the other carry different cookies, and the cookie
\* of a request differs from that of every earlier request the remote has
\* read and may still answer
C26_CookiePerRequest ==
    /\ [][\A t \in Threads :
            BuildStep(t) =>
               icc'.request.cookie =
                  IF Len(args[t].data) > ICC_MAX_PAYLOAD
                  THEN icc.request.cookie
                  ELSE (icc.request.cookie + 1) % U16Mod]_vars
    /\ [][icc'.request.cookie # icc.request.cookie =>
             \E t \in Threads : BuildStep(t) /\ pc'[t] = "check"]_vars
    /\ [](\A r1, r2 \in seen :
             r1.serial # r2.serial => r1.cookie # r2.cookie)
    /\ [](\A t \in Threads :
             pc[t] \in CmdStates \ {"build"} /\ err[t] # "e2big" =>
                \A r \in seen :
                   r.serial < serial[t] => r.cookie # icc.request.cookie)

\* a request turned away because the slot is busy has advanced the cookie,
\* here across the wrap: the frame still in the slot carries 65535
C26_Witness ==
    \E t \in Threads :
        /\ pc[t] = "unlock" /\ err[t] = "busy"
        /\ icc.request.cookie = 0
        /\ spm.req.full = 1 /\ spm.req.hdr.cookie = U16Mod - 1

\* two requests read by the remote one after the other, with cookies 65535
\* and 0
C26_WitnessTwo ==
    \E r1, r2 \in seen :
        /\ r1.serial + 1 = r2.serial
        /\ r1.cookie = U16Mod - 1 /\ r2.cookie = 0

\* an oversize request has left the cookie alone
C26_WitnessOversize ==
    \E t \in Threads :
        /\ pc[t] = "unlock" /\ err[t] = "e2big"
        /\ icc.request.cookie = U16Mod - 2

(***************************************************************************)
(* C27: icc_mutex at the return of apcie_icc_cmd.                          *)
(***************************************************************************)
\* C27: every call that acquires icc_mutex has released it by the time it
\* returns, on every return path (success, payload too large, slot busy,
\* timeout, checksum or reply mismatch, and the 'not ready' path taken when
\* no device is registered); in every state where no call is executing the
\* mutex is free
C27_MutexReleased ==
    /\ \A t \in Threads : pc[t] = "idle" => icc_mutex # t
    /\ (\A t \in Threads : pc[t] = "idle") => icc_mutex = NoThread

\* what holds of the code: a caller that has returned holds the mutex only
\* when its last call took the 'not ready' path, and the calls that entered
\* _apcie_icc_cmd have all released it
C27_ReleasedUnlessNotReady ==
    \A t \in Threads :
        pc[t] = "idle" /\ icc_mutex = t =>
            /\ err[t] = "notready" /\ ret[t] = 0 - EAGAIN
            /\ ~icc_sc

\* the call made after apcie_icc_remove has returned -EAGAIN and its caller
\* still owns the mutex; the next caller waits for it
C27_HeldAfterNotReady ==
    \E t, u \in Threads :
        /\ t # u
        /\ pc[t] = "idle" /\ err[t] = "notready" /\ icc_mutex = t
        /\ pc[u] = "lock"

(***************************************************************************)
(* C28: every call of apcie_icc_cmd returns.                               *)
(***************************************************************************)
\* the program with callers that keep taking the steps they can take (the
\* timeout of the wait among them) and a handler that runs to its end
SpecLive ==
    /\ Init /\ [][Next]_vars
    /\ \A t \in Threads : WF_vars(Sender(t))
    /\ WF_vars(Reactor)

\* C28: every call eventually returns, for any behaviour of the remote side
\* and any interleaving with other callers and with removal, the timeout
\* firing and lock holders taking steps: no caller is blocked forever on
\* icc_mutex or on the reply wait
C28_CallsReturn ==
    \A t \in Threads : (pc[t] # "idle") ~> (pc[t] = "idle")

\* what holds of the code: a call that has the mutex returns, and a call
\* that waits for the mutex returns unless the mutex is still owned by a
\* call that returned on the 'not ready' path (of another caller or of the
\* waiting caller itself)
C28_ReturnsUnlessOrphaned ==
    /\ \A t \in Threads : (pc[t] \in CmdStates) ~> (pc[t] = "idle")
    /\ \A t \in Threads :
          (pc[t] = "lock") ~>
              \/ pc[t] = "idle"
              \/ \E u \in Threads :
                    /\ icc_mutex = u /\ err[u] = "notready"
                    /\ pc[u] \in {"idle", "lock"}

(***************************************************************************)
(* C29: what the reactor copies into a caller's reply buffer, and when.    *)
(***************************************************************************)
\* reply_length values of the callers: nothing, two bytes, a whole payload
ReplyCaps == {0, 2, ICC_MAX_PAYLOAD}

ReplyArgs ==
    { [major |-> 2, minor |-> 6, data |-> <<1>>, reply_length |-> c,
       intr |-> FALSE] : c \in ReplyCaps }

\* payloads of the remote's replies: none (a bare header) and four bytes
LongPayloads == { <<>>, <<0, 0, 0, 8>> }

\* the longest frame the slot can hold, answering request r: four payload
\* bytes that are followed by zeros up to the end of the slot
MaxReply(r) ==
    LET p == <<0, 0, 0, 8>>
    IN  [hdr |-> Sealed([GoodReply(r, p) EXCEPT !.length = ICC_MAX_SIZE], p),
         data |-> p, g_for |-> r.serial]

\* well-formed replies of every length to the requests the remote has read,
\* a reply one byte longer than the slot, and one with a foreign cookie
LengthFrames ==
    { MkReply(r, p, "good") : r \in seen, p \in LongPayloads }
    \cup { MaxReply(r) : r \in seen }
    \cup { MkReply(r, <<7>>, v) : r \in seen, v \in {"long", "bad_cookie"} }

\* a remote that sends no more frames than it has read requests
RemoteSendLength ==
    /\ nframes < Cardinality(seen)
    /\ RemoteSendOf(LengthFrames)

LockReply(t) == LockWith(t, ReplyArgs)

SenderReply(t) ==
    \/ Call(t) \/ LockReply(t) \/ Build(t) \/ CheckSlot(t)
    \/ WriteEmpty(t) \/ WriteHdr(t) \/ WriteData(t) \/ WriteFull(t)
    \/ SetPending(t) \/ RingDoorbell(t)
    \/ WaitDone(t) \/ WaitTimeout(t)
    \/ AfterWait(t) \/ Verify(t) \/ Unlock(t)

\* one calling thread: mutual exclusion of callers is the subject of Spec
NextReply ==
    \/ SenderReply("t1")
    \/ Reactor
    \/ RemoteTake \/ RemoteSendLength

\* calls with reply buffers of every size against a remote whose replies
\* have every length (Aeolia transport, registered and never removed)
SpecReply == InitCq /\ [][NextReply]_vars

\* the reactor handles a frame
FrameStep == IrqSend /\ APCIE_ICC_SEND \in irq.status

\* C29: the reactor changes a reply buffer only when it accepts a frame, and
\* then the request of the buffer's owner is pending (the owner is between
\* setting the flag and taking the buffer back, and holds the mutex), the
\* bytes copied are the first min(reply_length, frame length - header size)
\* payload bytes, the rest of the buffer and every other buffer stay as they
\* were; a buffer never holds more than its owner's reply_length bytes, and
\* the buffer of a caller that is not inside a call is never written.
C29_CopyWithinCapacity ==
    /\ [](\A t \in Threads :
             /\ InCmd(t) => Len(buf[t]) = args[t].reply_length
             /\ ~InCmd(t) => buf[t] = <<>>)
    /\ [][FrameStep =>
            IF irq'.log = "accepted"
            THEN \E t \in Threads :
                    /\ icc.reply_pending
                    /\ icc.reply_buffer = t
                    /\ icc_mutex = t
                    /\ pc[t] \in {"bell", "wait", "after"}
                    /\ LET n == Min(args[t].reply_length,
                                    spm.rep.hdr.length - ICC_HDR_SIZE)
                       IN  /\ n <= args[t].reply_length
                           /\ icc'.reply_length = n
                           /\ buf'[t] =
                                 SubSeq(WindowPayload(spm.rep, n), 1, n)
                                 \o SubSeq(buf[t], n + 1, Len(buf[t]))
                    /\ \A u \in Threads \ {t} : buf'[u] = buf[u]
            ELSE buf' = buf]_vars

\* a four-byte reply was accepted for a caller with room for two bytes: two
\* bytes were copied and the buffer is still two bytes long
C29_Witness ==
    /\ irq.log = "accepted"
    /\ accepted # <<>>
    /\ accepted[1].hdr.length = ICC_HDR_SIZE + 4
    /\ \E t \in Threads :
          /\ pc[t] \in {"wait", "after"}
          /\ args[t].reply_length = 2
          /\ icc.reply_length = 2
          /\ buf[t] = <<0, 0>>

\* the longest frame was accepted and copied whole
C29_WitnessMaxFrame ==
    /\ irq.log = "accepted"
    /\ accepted # <<>>
    /\ accepted[1].hdr.length = ICC_MAX_SIZE
    /\ \E t \in Threads :
          /\ pc[t] \in {"wait", "after"}
          /\ icc.reply_length = ICC_MAX_PAYLOAD
          /\ buf[t] = <<0, 0, 0, 8>> \o Zeros(ICC_MAX_PAYLOAD - 4)

\* a well-formed reply arrived after its request had timed out and the call
\* had returned: it was turned away and no buffer was written
C29_WitnessLate ==
    /\ irq.log = "unexpected_reply"
    /\ prev = "timeout"
    /\ \A t \in Threads : pc[t] = "idle" /\ buf[t] = <<>>

(***************************************************************************)
(* C30: the shared mailbox state between calls.                            *)
(***************************************************************************)
\* no call of apcie_icc_cmd is executing
NoCall == \A t \in Threads : pc[t] = "idle"

\* C30: whenever no call is executing, sc->icc.reply_buffer is NULL and
\* reply_pending is clear, whatever the calls before returned.
C30_NoReferenceBetweenCalls ==
    NoCall => icc.reply_buffer = NULL /\ ~icc.reply_pending

\* what holds of the code: between calls reply_pending is clear, and
\* reply_buffer is NULL unless the last request that reached line 197 found
\* the request slot busy (a later -E2BIG return leaves it as it was)
C30_ReferenceOnlyAfterBusy ==
    NoCall =>
        /\ ~icc.reply_pending
        /\ icc.reply_buffer # NULL => prev \in {"busy", "e2big"}

\* a call has returned -EIO for a busy request slot and sc->icc.reply_buffer
\* still points at its reply buffer
C30_DanglingAfterBusy ==
    /\ NoCall
    /\ prev = "busy"
    /\ icc.reply_buffer \in Threads
    /\ ~icc.reply_pending

(***************************************************************************)
(* C31: the write cursor and the end of req.cmdbuf.                        *)
(***************************************************************************)
\* u8 cmdbuf[0x7ec] of struct i2c_cmdqueue
CQ_CMDBUF_SIZE == 2028

\* a batch of any length in which reads and register writes take turns, so
\* that every call opens a group: the calls go on while the cursor is
\* inside req.cmdbuf (no emitter looks at the cursor; once it has left the
\* array the behaviour of the C program is undefined, and the queue is not
\* followed further)
CanAlternate(e) ==
    /\ cq.p # NullOffset
    /\ ~exec.done
    /\ cq.p <= CQ_CMDBUF_SIZE
    /\ emitted # <<>> => emitted[Len(emitted)].op # e.op

EmitTurn(e, q) ==
    /\ CanAlternate(e)
    /\ cq' = q
    /\ emitted' = Append(emitted, e)
    /\ opened' = IF q.cmd # cq.cmd THEN Append(opened, q.cmd) ELSE opened
    /\ UNCHANGED << iccVars, exec, detect, probe, ioc, br, ctl >>

TurnRead ==
    EmitTurn([op |-> CMD_READ, x |-> << TMONREG, 1 >>],
             cq_read(cq, TMONREG, 1))

TurnWriteReg ==
    LET x == WriteRegOperands(Len(emitted) + 1)
    IN  EmitTurn([op |-> CMD_WRITE, x |-> x], cq_writereg(cq, x[1], x[2]))

NextCursor == CqInit \/ TurnRead \/ TurnWriteReg

\* the command queue under batches of alternating emitters of every length
SpecCursor == InitCq /\ [][NextCursor]_vars

\* C31: for every sequence of emitter calls made since cq_init the write
\* cursor is within req.cmdbuf (no byte of a group header or of an operand
\* was written past its end), req.count is the number of groups opened, and
\* the repeat count of every group is the number of calls made in it (one,
\* when no two consecutive calls are calls of the same emitter).
C31_CursorWithinBuffer ==
    cq.p # NullOffset =>
        /\ cq.p <= CQ_CMDBUF_SIZE
        /\ Len(cq.cmdbuf) <= CQ_CMDBUF_SIZE
        /\ cq.count = Len(opened)
        /\ Len(opened) = Len(emitted)
        /\ \A k \in DOMAIN opened : HdrCount(cq, opened[k]) = 1

\* what holds of the code: the cursor is where the calls have taken it, four
\* bytes for every group header and four for every operand record, and the
\* counts are right, whether or not that is inside the 2028-byte array, so
\* that a batch is within the array exactly when it has 253 calls or fewer
C31_CursorFollowsCalls ==
    cq.p # NullOffset =>
        /\ cq.p = 4 * Len(opened) + 4 * Len(emitted)
        /\ cq.p = Len(cq.cmdbuf)
        /\ cq.count = Len(opened)
        /\ Len(opened) = Len(emitted)
        /\ \A k \in DOMAIN opened : HdrCount(cq, opened[k]) = 1
        /\ Len(emitted) <= 253 => cq.p <= CQ_CMDBUF_SIZE

\* 254 alternating calls: the header of the last group took the last four
\* bytes of req.cmdbuf and its operand record was written behind the array
C31_PastTheEnd ==
    /\ Len(emitted) = 254
    /\ cq.count = 254
    /\ opened[254] = CQ_CMDBUF_SIZE - 4
    /\ cq.p = CQ_CMDBUF_SIZE + 4

(***************************************************************************)
(* C32: two threads inside icc_ioctl and the one ioctl_tmp_buf.            *)
(***************************************************************************)
\* the request bytes a thread's user supplies (cmd.data, cmd.length): every
\* thread has bytes of its own
UserData(t) ==
    IF t = "t1" THEN { << 17 >>, << 17, 18 >> }
    ELSE { << 33 >>, << 33, 34 >> }

\* cmd.reply_length
UserReplyLengths == {1, 2}

\* the payload of the remote's reply to the request of thread t
ReplyFor(t) == IF t = "t1" THEN << 117, 118 >> ELSE << 133, 134 >>

\* everything but icc_mutex and ctl
CtlFrame ==
    UNCHANGED << bpcie_initialized, icc_sc, icc, spm, regs, callerVars, buf,
                 irq, ncalls, nlocked, nframes, seen, ghostVars, cq, emitted,
                 opened, exec, detect, probe, ioc, br >>

CtlGoto(c, t, l) == [c EXCEPT !.pc[t] = l]

\* lines 409-414: case ICC_IOCTL_CMD, copy_from_user(&cmd, uap, sizeof(cmd)),
\* which may fault; icc_ioctl is the unlocked_ioctl of the device, so a
\* thread may enter while another one is inside
CtlEnter(t) ==
    /\ ctl.pc[t] = "idle"
    /\ ctl.n < MaxCalls
    /\ LET others == { u \in Threads \ {t} : ctl.pc[u] # "idle" }
           c0 == [ctl EXCEPT
                     !.n = @ + 1,
                     !.alone = [u \in Threads |->
                                   IF u = t THEN others = {}
                                   ELSE IF u \in others THEN FALSE
                                   ELSE @[u]]]
       IN  \/ \E d \in UserData(t), r \in UserReplyLengths :
                 ctl' = [c0 EXCEPT !.pc[t] = "copy_in", !.user[t] = d,
                                   !.reply_length[t] = r]
           \/ ctl' = [c0 EXCEPT !.pc[t] = "return", !.ret[t] = 0 - EFAULT]
    /\ UNCHANGED icc_mutex
    /\ CtlFrame

\* lines 434-436: any other command: -ENOENT
CtlOther(t) ==
    /\ ctl.pc[t] = "idle"
    /\ ctl.n < MaxCalls
    /\ ctl' = [ctl EXCEPT !.n = @ + 1, !.pc[t] = "return",
                          !.ret[t] = 0 - ENOENT]
    /\ UNCHANGED icc_mutex
    /\ CtlFrame

\* line 416: copy_from_user(ioctl_tmp_buf, cmd.data, cmd.length), under no
\* lock; on a fault after k bytes the rest of the destination is zeroed
CtlCopyIn(t) ==
    /\ ctl.pc[t] = "copy_in"
    /\ \/ ctl' = [ctl EXCEPT !.tmp = CopyInto(@, ctl.user[t]),
                             !.pc[t] = "cmd"]
       \/ \E k \in 0..(Len(ctl.user[t]) - 1) :
             ctl' = [ctl EXCEPT
                       !.tmp = CopyInto(@, Take(ctl.user[t], k)
                                  \o Zeros(Len(ctl.user[t]) - k)),
                       !.ret[t] = 0 - EFAULT,
                       !.pc[t] = "return"]
    /\ UNCHANGED icc_mutex
    /\ CtlFrame

\* lines 421, 275: apcie_icc_cmd(..., ioctl_tmp_buf, cmd.length,
\* ioctl_tmp_buf, cmd.reply_length) takes icc_mutex
CtlCmdLock(t) ==
    /\ ctl.pc[t] = "cmd"
    /\ MutexAvailable
    /\ icc_mutex' = t
    /\ ctl' = CtlGoto(ctl, t, "post")
    /\ CtlFrame

\* lines 195, 212: _apcie_icc_cmd sums and transmits the length bytes at data
CtlCmdPost(t) ==
    /\ ctl.pc[t] = "post"
    /\ ctl' = [ctl EXCEPT !.sent[t] = Take(ctl.tmp, Len(ctl.user[t])),
                          !.pc[t] = "wait"]
    /\ UNCHANGED icc_mutex
    /\ CtlFrame

\* lines 225-262, 282: the reactor copies min(reply_length, payload length)
\* bytes of the reply into the buffer and the call returns the payload
\* length, or the wait times out; icc_mutex is released
CtlCmdWait(t) ==
    /\ ctl.pc[t] = "wait"
    /\ icc_mutex' = NoThread
    /\ \/ LET bytes == Take(ReplyFor(t), ctl.reply_length[t])
          IN  ctl' = [ctl EXCEPT !.tmp = CopyInto(@, bytes),
                                 !.reply[t] = bytes,
                                 !.ret[t] = Len(ReplyFor(t)),
                                 !.pc[t] = "copy_out"]
       \/ ctl' = [ctl EXCEPT !.ret[t] = 0 - ETIMEDOUT, !.pc[t] = "return"]
    /\ CtlFrame

\* lines 427-432: copy_to_user(cmd.reply, ioctl_tmp_buf, cmd.reply_length),
\* which may fault; ret = reply_len
CtlCopyOut(t) ==
    /\ ctl.pc[t] = "copy_out"
    /\ \/ ctl' = [ctl EXCEPT !.out[t] = Take(ctl.tmp, ctl.reply_length[t]),
                             !.pc[t] = "return"]
       \/ ctl' = [ctl EXCEPT !.ret[t] = 0 - EFAULT, !.pc[t] = "return"]
    /\ UNCHANGED icc_mutex
    /\ CtlFrame

\* line 438: return ret (the histories of the call end)
CtlReturn(t) ==
    /\ ctl.pc[t] = "return"
    /\ ctl' = [ctl EXCEPT !.pc[t] = "idle", !.user[t] = <<>>,
                          !.reply_length[t] = 0, !.ret[t] = 0,
                          !.sent[t] = <<>>, !.reply[t] = <<>>,
                          !.out[t] = <<>>, !.alone[t] = TRUE]
    /\ UNCHANGED icc_mutex
    /\ CtlFrame

Ctl(t) ==
    \/ CtlEnter(t) \/ CtlOther(t) \/ CtlCopyIn(t) \/ CtlCmdLock(t)
    \/ CtlCmdPost(t) \/ CtlCmdWait(t) \/ CtlCopyOut(t) \/ CtlReturn(t)

NextCtl == \E t \in Threads : Ctl(t)

\* threads calling the control operation at any time
SpecCtl == InitCq /\ [][NextCtl]_vars

\* the request of the call of t has been transmitted
CtlSent(t) ==
    \/ ctl.pc[t] \in {"wait", "copy_out"}
    \/ ctl.pc[t] = "return" /\ ctl.sent[t] # <<>>

\* the call of t has handed a reply back to its user
CtlDone(t) ==
    ctl.pc[t] = "return" /\ ctl.ret[t] >= 0

\* C32: under every interleaving of two calls, the request bytes transmitted
\* for a call are the bytes its user supplied, and the reply bytes handed
\* back to its user are the bytes of its own reply.
C32_NoInterference ==
    \A t \in Threads :
        /\ CtlSent(t) => ctl.sent[t] = ctl.user[t]
        /\ CtlDone(t) => ctl.out[t] = ctl.reply[t]

\* what holds of the code: the same for a call during which no other thread
\* was inside icc_ioctl
C32_AloneNoInterference ==
    \A t \in Threads :
        ctl.alone[t] =>
            /\ CtlSent(t) => ctl.sent[t] = ctl.user[t]
            /\ CtlDone(t) => ctl.out[t] = ctl.reply[t]

\* the request transmitted for t1 carries the bytes of the user of t2
C32_ForeignRequest ==
    /\ CtlSent("t1")
    /\ ctl.user["t1"] = << 17, 18 >>
    /\ ctl.sent["t1"] = << 33, 34 >>

\* the user of t1 was handed the reply to the request of t2
C32_ForeignReply ==
    /\ CtlDone("t1")
    /\ ctl.reply["t1"] = << 117, 118 >>
    /\ ctl.out["t1"] = << 133, 134 >>

\* a call made alone: its own bytes went out and its own reply came back
C32_AloneCall ==
    /\ CtlDone("t1") /\ ctl.alone["t1"]
    /\ ctl.sent["t1"] = << 17, 18 >>
    /\ ctl.out["t1"] = << 117, 118 >>

=============================================================================
